---------------------------- MODULE Spec2Model ----------------------------
(***************************************************************************)
(* A model of three-ui: the display-object bounds resolver                 *)
(* (DisplayObject.js), the dirty tracker, the redraw scheduler and the     *)
(* click dispatcher of ThreeUI.                                            *)
(*                                                                         *)
(* Numbers.  Lengths are integers (pixels).  A pivot is stored in halves   *)
(* (0, 1, 2 stand for 0, 0.5, 1), so  size * pivot  is  (size * p) \div 2; *)
(* a centre anchor takes  size \div 2;  a percentage offset  "p%"  takes   *)
(* (p * width) \div 100.  The value sets below keep these quotients exact. *)
(*                                                                         *)
(* Objects.  `objects' is the heap of display objects, indexed by the      *)
(* order of creation; a display object is referred to by its index.        *)
(***************************************************************************)
EXTENDS Integers, Sequences, FiniteSets, TLC

VARIABLES
    objects,                \* the display objects created so far
    displayObjects,         \* ThreeUI.displayObjects: the draw list
    eventListeners,         \* ThreeUI.eventListeners.click
    shouldReDraw,           \* ThreeUI.shouldReDraw
    listeningToTouchEvents, \* ThreeUI.listeningToTouchEvents
    gameCanvas,             \* the host surface: [width, height]
    width,                  \* ThreeUI.width
    height,                 \* ThreeUI.height
    renderOnQuad,           \* ThreeUI.renderOnQuad
    AssetLoader,            \* the AssetLoader object and the loads under way
    last                    \* what the last operation did (its observable effects)

vars == <<objects, displayObjects, eventListeners, shouldReDraw,
          listeningToTouchEvents, gameCanvas, width, height, renderOnQuad,
          AssetLoader, last>>

---------------------------------------------------------------------------
(* Bounds of the model *)

MaxNodes == 2
MaxListeners == 2
MaxCoord == 5

---------------------------------------------------------------------------
(* anchors.js *)

anchors == [center |-> 1, left |-> 2, right |-> 3, top |-> 4, bottom |-> 5]

(* DisplayObject.parent: undefined, or a display object (its index) *)
NoParent == 0

(* Values of DisplayObject.parent that are not display objects: null (not  *)
(* undefined, and falsy), a value that is truthy and has no truthy         *)
(* `visible' of its own ({}, 5, "a"), and one that has ({visible: true}).  *)
NullParent == 0 - 1
PlainObject == 0 - 2
ShownObject == 0 - 3

NonNodes == {NullParent, PlainObject, ShownObject}

(* p instanceof DisplayObject *)
IsDisplayObject(p) == p >= 1

(* what  this.parent && this.parent !== this  gives for a parent that is   *)
(* no display object, and what  this.parent.visible  then reads            *)
Truthy(p) == p \in {PlainObject, ShownObject}
VisibleOf(p) == p = ShownObject

(* An offset edge holds a number or a string; the strings are "<p>%" *)
Num(n) == [kind |-> "number", v |-> n]
Pct(p) == [kind |-> "percent", v |-> p]

(* values of an edge that are no number and no "<p>%": another string      *)
(* ("50px"), and null                                                      *)
OtherString == [kind |-> "string", v |-> 0]
Null == [kind |-> "null", v |-> 0]

(* new DisplayObject(ui, x, y, width, height) *)
DisplayObject(x, y, w, h) ==
    [ x |-> x, y |-> y, width |-> w, height |-> h,
      visible |-> TRUE,
      pivot   |-> [x |-> 1, y |-> 1],
      anchor  |-> [x |-> anchors.left, y |-> anchors.top],
      stretch |-> [x |-> FALSE, y |-> FALSE],
      offset  |-> [left |-> Num(0), top |-> Num(0), right |-> Num(0), bottom |-> Num(0)],
      parent  |-> NoParent ]

(* new Rectangle(ui, color, x, y, width, height): all arguments given *)
Rectangle(x, y, w, h) == DisplayObject(x, y, w, h)

---------------------------------------------------------------------------
(* The bounds resolver.  A result is a rectangle, or an error thrown.      *)
(* `fuel' is the depth of call stack left: a parent chain longer than the  *)
(* number of objects is cyclic, recursion on it never returns and the      *)
(* engine throws a RangeError.                                             *)

Rect(x, y, w, h) == [err |-> "none", x |-> x, y |-> y, width |-> w, height |-> h]
Thrown(e) == [err |-> e, x |-> 0, y |-> 0, width |-> 0, height |-> 0]

StackDepth(objs) == Len(objs)

RECURSIVE getBounds(_, _, _, _)

(* a getParentBounds that answers the canvas whatever the parent *)
getParentBoundsOfRoot(objs, cv, n, fuel) == Rect(0, 0, cv.width, cv.height)

(* DisplayObject.prototype.getParentBounds *)
getParentBounds(objs, cv, n, fuel) ==
    LET p == objs[n].parent IN
    IF p = NoParent THEN Rect(0, 0, cv.width, cv.height)
    ELSE IF IsDisplayObject(p)
         THEN IF fuel = 0 THEN Thrown("RangeError")
              ELSE getBounds(objs, cv, p, fuel - 1)
         ELSE Thrown("Error")

(* an edge resolver that takes a top or bottom percentage of the height *)
offsetEdgeOwnAxis(key, value, parentBounds) ==
    IF value.kind = "number" THEN value.v
    ELSE IF key \in {"top", "bottom"} THEN (value.v * parentBounds.height) \div 100
    ELSE (value.v * parentBounds.width) \div 100

(* one edge of getOffsetInCanvas (the body of its loop, for one key):      *)
(* numbers pass, "p%" is p / 100 of the parent's width                     *)
offsetEdge(key, value, parentBounds) ==
    IF value.kind = "number" THEN value.v
    ELSE (value.v * parentBounds.width) \div 100

(* a loop that takes an edge it cannot read for 0 *)
offsetsInLenient(o, pb) ==
    LET edge(k) == IF o[k].kind = "number" THEN o[k].v
                   ELSE IF o[k].kind = "percent" THEN (o[k].v * pb.width) \div 100
                   ELSE 0
    IN  IF \A k \in {"left", "top", "right", "bottom"} : o[k].kind = "number"
        THEN [err |-> "none", left |-> o.left.v, top |-> o.top.v,
              right |-> o.right.v, bottom |-> o.bottom.v]
        ELSE IF pb.err # "none"
        THEN [err |-> pb.err, left |-> 0, top |-> 0, right |-> 0, bottom |-> 0]
        ELSE [err |-> "none", left |-> edge("left"), top |-> edge("top"),
              right |-> edge("right"), bottom |-> edge("bottom")]

(* the loop of getOffsetInCanvas over the four edges of offset o, given    *)
(* the bounds of the parent; value.match(...)[1] fails on any other string *)
offsetsIn(o, pb) ==
    IF \A k \in {"left", "top", "right", "bottom"} : o[k].kind = "number"
    THEN [err |-> "none", left |-> o.left.v, top |-> o.top.v,
          right |-> o.right.v, bottom |-> o.bottom.v]
    ELSE IF pb.err # "none"
    THEN [err |-> pb.err, left |-> 0, top |-> 0, right |-> 0, bottom |-> 0]
    ELSE IF \E k \in {"left", "top", "right", "bottom"} : o[k].kind \notin {"number", "percent"}
    THEN [err |-> "TypeError", left |-> 0, top |-> 0, right |-> 0, bottom |-> 0]
    ELSE [err |-> "none",
          left   |-> offsetEdge("left", o.left, pb),
          top    |-> offsetEdge("top", o.top, pb),
          right  |-> offsetEdge("right", o.right, pb),
          bottom |-> offsetEdge("bottom", o.bottom, pb)]

(* DisplayObject.prototype.getOffsetInCanvas *)
getOffsetInCanvas(objs, cv, n, fuel) ==
    offsetsIn(objs[n].offset, getParentBounds(objs, cv, n, fuel))

(* an end anchor that adds the raw coordinate to the parent's far edge *)
anchorXEndAddsRaw(node, pb, x) ==
    IF node.stretch.x THEN x
    ELSE IF node.anchor.x = anchors.left   THEN pb.x + x
    ELSE IF node.anchor.x = anchors.right  THEN pb.x + pb.width + x
    ELSE IF node.anchor.x = anchors.center THEN pb.x + (pb.width \div 2) + x
    ELSE x

(* DisplayObject.prototype.adjustPositionForAnchor, one axis each *)
anchorX(node, pb, x) ==
    IF node.stretch.x THEN x
    ELSE IF node.anchor.x = anchors.left   THEN pb.x + x
    ELSE IF node.anchor.x = anchors.right  THEN pb.x + pb.width - x
    ELSE IF node.anchor.x = anchors.center THEN pb.x + (pb.width \div 2) + x
    ELSE x

(* a centre anchor that leaves out the parent's origin *)
anchorYWithoutParentOrigin(node, pb, y) ==
    IF node.stretch.y THEN y
    ELSE IF node.anchor.y = anchors.top    THEN pb.y + y
    ELSE IF node.anchor.y = anchors.bottom THEN pb.y + pb.height - y
    ELSE IF node.anchor.y = anchors.center THEN (pb.height \div 2) + y
    ELSE y

anchorY(node, pb, y) ==
    IF node.stretch.y THEN y
    ELSE IF node.anchor.y = anchors.top    THEN pb.y + y
    ELSE IF node.anchor.y = anchors.bottom THEN pb.y + pb.height - y
    ELSE IF node.anchor.y = anchors.center THEN pb.y + (pb.height \div 2) + y
    ELSE y

adjustPositionForAnchor(node, pb, x, y) ==
    [x |-> anchorX(node, pb, x), y |-> anchorY(node, pb, y)]

(* a pivot adjustment that leaves a stretched axis alone *)
adjustPositionForPivotUnstretched(node, x, y) ==
    [x |-> IF node.stretch.x THEN x ELSE x - ((node.width * node.pivot.x) \div 2),
     y |-> IF node.stretch.y THEN y ELSE y - ((node.height * node.pivot.y) \div 2)]

(* DisplayObject.prototype.adjustPositionForPivot *)
adjustPositionForPivot(node, x, y) ==
    [x |-> x - ((node.width * node.pivot.x) \div 2),
     y |-> y - ((node.height * node.pivot.y) \div 2)]

(* the body of determinePositionInCanvas, given the parent's bounds pb and *)
(* the offsets off in pixels                                               *)
positionIn(node, pb, off) ==
    LET px == IF node.stretch.x THEN pb.x + off.left ELSE node.x
        py == IF node.stretch.y THEN pb.y + off.top ELSE node.y
        anchored == adjustPositionForAnchor(node, pb, px, py)
    IN  IF pb.err # "none" THEN [err |-> pb.err, x |-> 0, y |-> 0]
        ELSE IF (node.stretch.x \/ node.stretch.y) /\ off.err # "none"
        THEN [err |-> off.err, x |-> 0, y |-> 0]
        ELSE [err |-> "none"] @@ adjustPositionForPivot(node, anchored.x, anchored.y)

(* DisplayObject.prototype.determinePositionInCanvas *)
determinePositionInCanvas(objs, cv, n, fuel) ==
    positionIn(objs[n], getParentBounds(objs, cv, n, fuel),
               getOffsetInCanvas(objs, cv, n, fuel))

(* dimensions that forget the offset of the end edge *)
dimensionsFromStartEdge(node, pb, off) ==
    IF ~(node.stretch.x \/ node.stretch.y)
    THEN [err |-> "none", width |-> node.width, height |-> node.height]
    ELSE IF pb.err # "none" THEN [err |-> pb.err, width |-> 0, height |-> 0]
    ELSE IF off.err # "none" THEN [err |-> off.err, width |-> 0, height |-> 0]
    ELSE [err |-> "none",
          width  |-> IF node.stretch.x THEN pb.width - off.left ELSE node.width,
          height |-> IF node.stretch.y THEN pb.height - off.top ELSE node.height]

(* the body of determineDimensionsInCanvas, given the parent's bounds pb   *)
(* and the offsets off in pixels                                           *)
dimensionsIn(node, pb, off) ==
    IF ~(node.stretch.x \/ node.stretch.y)
    THEN [err |-> "none", width |-> node.width, height |-> node.height]
    ELSE IF pb.err # "none" THEN [err |-> pb.err, width |-> 0, height |-> 0]
    ELSE IF off.err # "none" THEN [err |-> off.err, width |-> 0, height |-> 0]
    ELSE [err |-> "none",
          width  |-> IF node.stretch.x THEN pb.width - off.left - off.right
                     ELSE node.width,
          height |-> IF node.stretch.y THEN pb.height - off.top - off.bottom
                     ELSE node.height]

(* DisplayObject.prototype.determineDimensionsInCanvas *)
determineDimensionsInCanvas(objs, cv, n, fuel) ==
    dimensionsIn(objs[n], getParentBounds(objs, cv, n, fuel),
                 getOffsetInCanvas(objs, cv, n, fuel))

(* the object getBounds returns, or what was thrown on the way *)
boundsOf(position, dimensions) ==
    IF position.err # "none" THEN Thrown(position.err)
    ELSE IF dimensions.err # "none" THEN Thrown(dimensions.err)
    ELSE Rect(position.x, position.y, dimensions.width, dimensions.height)

(* DisplayObject.prototype.getBounds *)
getBounds(objs, cv, n, fuel) ==
    boundsOf(determinePositionInCanvas(objs, cv, n, fuel),
             determineDimensionsInCanvas(objs, cv, n, fuel))

(* resolveBounds(node): getBounds called from outside, on a fresh stack *)
resolveBounds(objs, cv, n) == getBounds(objs, cv, n, StackDepth(objs))

---------------------------------------------------------------------------
(* The dirty tracker (observeDirtyProperties).  A read or a write returns  *)
(* normally (err = "none") or throws.                                      *)

(* dirtyProperties, as far as the fields of the model's display objects go *)
dirtyProperties == {"x", "y", "width", "height", "visible", "pivot", "anchor",
                    "stretch", "offset", "parent"}

RECURSIVE proxiedVisible(_, _, _)

(* what the getter returns for an object that has a parent: false when    *)
(* the parent reads not visible, else the object's own _visible            *)
visibleUnder(own, pv) ==
    IF pv.err # "none" THEN pv
    ELSE IF ~pv.value THEN [err |-> "none", value |-> FALSE]
    ELSE [err |-> "none", value |-> own]

(* the getter of DisplayObject.prototype._proxied_visible; this.parent.visible *)
(* is the parent's observed getter, which is this getter again             *)
proxiedVisible(objs, n, fuel) ==
    IF IsDisplayObject(objs[n].parent) /\ objs[n].parent # n
    THEN IF fuel = 0 THEN [err |-> "RangeError", value |-> FALSE]
         ELSE visibleUnder(objs[n].visible, proxiedVisible(objs, objs[n].parent, fuel - 1))
    ELSE IF Truthy(objs[n].parent)
    THEN visibleUnder(objs[n].visible, [err |-> "none", value |-> VisibleOf(objs[n].parent)])
    ELSE [err |-> "none", value |-> objs[n].visible]

(* a getter that returns the backing value of every field *)
observedGetBacking(objs, n, prop) == [err |-> "none", value |-> objs[n][prop]]

(* the getter observeDirtyProperties installs: return object[proxyKey] *)
observedGet(objs, n, prop) ==
    IF prop = "visible" THEN proxiedVisible(objs, n, StackDepth(objs))
    ELSE [err |-> "none", value |-> objs[n][prop]]

(* the fields that hold an object: a value written to one is a new object, *)
(* which !== finds different from the one held whatever its contents       *)
compoundProperties == {"pivot", "anchor", "stretch", "offset"}

(* the setter observeDirtyProperties installs; `flag' is ui.shouldReDraw.  *)
(* object[proxyKey] = value stores into the backing field (for `visible',  *)
(* through the prototype's setter, into _visible).                          *)
stored(objs, flag, n, prop, value, cur) ==
    IF cur.err # "none" THEN [err |-> cur.err, objs |-> objs, flag |-> flag]
    ELSE [err |-> "none",
          objs |-> [objs EXCEPT ![n][prop] = value],
          flag |-> IF prop \in compoundProperties \/ cur.value # value THEN TRUE ELSE flag]

(* a setter that marks the user interface dirty on every write *)
observedSetAlways(objs, flag, n, prop, value) ==
    [stored(objs, flag, n, prop, value, observedGet(objs, n, prop)) EXCEPT !.flag = TRUE]

observedSet(objs, flag, n, prop, value) ==
    stored(objs, flag, n, prop, value, observedGet(objs, n, prop))

(* an eligibility test that looks at the object's own flag only *)
shouldReceiveEventsOwnFlag(objs, n) == [err |-> "none", value |-> objs[n].visible]

(* DisplayObject.prototype.shouldReceiveEvents *)
shouldReceiveEvents(objs, n) == observedGet(objs, n, "visible")

---------------------------------------------------------------------------
(* The redraw scheduler *)

Canvas == [width |-> width, height |-> height]

(* the body of DisplayObject.prototype.render, given what this.visible    *)
(* reads (v) and what getBounds returns (b): it returns at once when the   *)
(* object is not visible, else calls the object's draw with the bounds     *)
rendered(n, v, b) ==
    IF v.err # "none" THEN [err |-> v.err, drawn |-> <<>>]
    ELSE IF ~v.value THEN [err |-> "none", drawn |-> <<>>]
    ELSE IF b.err # "none" THEN [err |-> b.err, drawn |-> <<>>]
    ELSE [err |-> "none", drawn |-> << [node |-> n, bounds |-> b] >>]

(* a render that looks at the flag stored in the object alone *)
renderOwnFlag(objs, cv, n) ==
    rendered(n, [err |-> "none", value |-> objs[n].visible], resolveBounds(objs, cv, n))

(* DisplayObject.prototype.render *)
render(objs, cv, n) ==
    rendered(n, observedGet(objs, n, "visible"), resolveBounds(objs, cv, n))

(* a loop that catches what render throws and goes on *)
afterRenderCaught(acc, n, r) ==
    [err |-> "none", rendered |-> Append(acc.rendered, n), drawn |-> acc.drawn \o r.drawn]

(* one turn of the loop of draw: render was called on object n and gave r *)
afterRender(acc, n, r) ==
    [err |-> r.err, rendered |-> Append(acc.rendered, n), drawn |-> acc.drawn \o r.drawn]

RECURSIVE drawLoopBackwards(_, _, _, _, _)

(* a loop that walks the list from its end *)
drawLoopBackwards(objs, cv, list, i, acc) ==
    IF i > Len(list) \/ acc.err # "none" THEN acc
    ELSE drawLoopBackwards(objs, cv, list, i + 1,
             afterRender(acc, list[Len(list) + 1 - i],
                         render(objs, cv, list[Len(list) + 1 - i])))

RECURSIVE drawLoop(_, _, _, _, _)

(* the loop of ThreeUI.prototype.draw from index i on; acc collects the    *)
(* render calls and the draw calls made so far, and the error that ended   *)
(* the loop                                                                *)
drawLoop(objs, cv, list, i, acc) ==
    IF i > Len(list) \/ acc.err # "none" THEN acc
    ELSE drawLoop(objs, cv, list, i + 1,
                  afterRender(acc, list[i], render(objs, cv, list[i])))

NoPass == [err |-> "none", rendered |-> <<>>, drawn |-> <<>>]

(* draw after its loop: the flag is cleared when the loop came to its end *)
passDone(pass, flag) ==
    [err |-> pass.err, cleared |-> 1, rendered |-> pass.rendered, drawn |-> pass.drawn,
     flag |-> IF pass.err = "none" THEN FALSE ELSE flag]

(* a draw that repaints whether or not the flag is set *)
drawUnguarded(objs, cv, list, flag) ==
    passDone(drawLoop(objs, cv, list, 1, NoPass), flag)

(* a draw that clears the flag before it renders, so also when a render throws *)
drawClearsFirst(objs, cv, list, flag) ==
    IF ~flag
    THEN [err |-> "none", cleared |-> 0, rendered |-> <<>>, drawn |-> <<>>, flag |-> flag]
    ELSE [passDone(drawLoop(objs, cv, list, 1, NoPass), flag) EXCEPT !.flag = FALSE]

(* ThreeUI.prototype.draw *)
draw(objs, cv, list, flag) ==
    IF ~flag
    THEN [err |-> "none", cleared |-> 0, rendered |-> <<>>, drawn |-> <<>>, flag |-> flag]
    ELSE passDone(drawLoop(objs, cv, list, 1, NoPass), flag)

(* a frame that asks for the texture to be uploaded whether or not it     *)
(* repainted                                                               *)
needsUpdateEveryFrame(quad, pass) == IF quad THEN 1 ELSE 0

(* lines 166-169 of draw, given the result of the pass: texture.needsUpdate *)
(* is set once, when the user interface renders on a quad, and only by a    *)
(* draw that went past its guard and whose loop came to its end             *)
needsUpdate(quad, pass) ==
    IF quad /\ pass.cleared = 1 /\ pass.err = "none" THEN 1 ELSE 0

(* lines 183-185 of render: once draw has returned, the host's renderer    *)
(* draws the quad                                                          *)
hostRender(quad, pass) == IF quad /\ pass.err = "none" THEN 1 ELSE 0

(* the statements of render in the order of its lines: the call of draw    *)
(* (181), the host's renderer (183-185), the tint (187-195)                *)
renderSteps == <<"draw", "host", "tint">>

(* a frame before render has done anything.  canvas: 0 as earlier frames   *)
(* left it, 1 repainted, 2 tinted; uploaded: the canvas the host's         *)
(* renderer uploaded with the texture (0: none, needsUpdate was not set)   *)
NoFrame == [canvas |-> 0, host |-> 0, uploaded |-> 0, tint |-> 0]

(* one statement of render: draw repaints the canvas when it goes past its *)
(* guard; the host's renderer, on a quad, uploads the canvas as it is if   *)
(* draw has set texture.needsUpdate; the tint fills the canvas when        *)
(* colorReplace is set                                                     *)
stepped(f, step, quad, colorReplace, pass) ==
    IF step = "draw" THEN [f EXCEPT !.canvas = IF pass.cleared = 1 THEN 1 ELSE @]
    ELSE IF step = "host"
    THEN IF quad
         THEN [f EXCEPT !.host = 1,
                        !.uploaded = IF needsUpdate(quad, pass) = 1 THEN f.canvas ELSE 0]
         ELSE f
    ELSE IF colorReplace THEN [f EXCEPT !.canvas = 2, !.tint = 1]
    ELSE f

RECURSIVE frame(_, _, _, _, _, _)

(* render from its statement i on; an exception of draw ends it *)
frame(steps, i, quad, colorReplace, pass, f) ==
    IF i > Len(steps) \/ pass.err # "none" THEN f
    ELSE frame(steps, i + 1, quad, colorReplace, pass,
               stepped(f, steps[i], quad, colorReplace, pass))

(* ThreeUI.prototype.moveToFront, for an object of the list *)
RemoveAt(list, i) == SubSeq(list, 1, i - 1) \o SubSeq(list, i + 1, Len(list))

IndexOf(list, n) ==
    IF \E i \in 1..Len(list) : list[i] = n
    THEN CHOOSE i \in 1..Len(list) : list[i] = n /\ \A j \in 1..(i - 1) : list[j] # n
    ELSE 0

(* a moveToFront that pushes without removing *)
moveToFrontNoSplice(list, n) == Append(list, n)

moveToFront(list, n) ==
    LET elIdx == IndexOf(list, n) IN
    Append(IF elIdx > 0 THEN RemoveAt(list, elIdx) ELSE list, n)

---------------------------------------------------------------------------
(* The click dispatcher *)

(* the host canvas as displayed: gameCanvas.getBoundingClientRect() *)
ClientRect == [left |-> 10, top |-> 20, height |-> 360]

(* ThreeUI.prototype.windowToUISpace *)
windowToUISpace(h, x, y) ==
    [x |-> ((x - ClientRect.left) * h) \div ClientRect.height,
     y |-> ((y - ClientRect.top) * h) \div ClientRect.height]

(* a hit test that leaves the far edges out *)
isInBoundingBoxHalfOpen(x, y, boundX, boundY, boundWidth, boundHeight) ==
    /\ x >= boundX
    /\ x < boundX + boundWidth
    /\ y >= boundY
    /\ y < boundY + boundHeight

(* ThreeUI.isInBoundingBox *)
isInBoundingBox(x, y, boundX, boundY, boundWidth, boundHeight) ==
    /\ x >= boundX
    /\ x <= boundX + boundWidth
    /\ y >= boundY
    /\ y <= boundY + boundHeight

(* What a click callback does when it is called: nothing, or one write to  *)
(* a field of another display object than its own (hide it, put it under   *)
(* some other object, move it).  An effect [prop, d, value] names its      *)
(* target by the distance d from the callback's own object in `objects';   *)
(* for a new parent, value is the distance of the parent from the target.  *)
NoEffect == [prop |-> "none", d |-> 0, value |-> 0]

Another(objs, n, d) == ((n - 1 + d) % Len(objs)) + 1

EffectTarget(objs, n, eff) == Another(objs, n, eff.d)

EffectValue(objs, n, eff) ==
    IF eff.prop = "visible" THEN eff.value = 1
    ELSE IF eff.prop = "parent" THEN Another(objs, EffectTarget(objs, n, eff), eff.value)
    ELSE eff.value

(* effs says what the callbacks of this event do; one it does not name     *)
(* does nothing                                                            *)
effectOf(effs, i) == IF i \in DOMAIN effs THEN effs[i] ELSE NoEffect

(* the callback of a listener on object n runs: its write goes through the *)
(* observed setter                                                         *)
callback(objs, flag, n, eff) ==
    IF eff.prop = "none" THEN [err |-> "none", objs |-> objs, flag |-> flag]
    ELSE observedSet(objs, flag, EffectTarget(objs, n, eff), eff.prop,
                     EffectValue(objs, n, eff))

(* the test of one listener, given what shouldReceiveEvents returns (v)   *)
(* and the bounds of its object (b)                                        *)
matches(coords, v, b) ==
    IF v.err # "none" THEN [err |-> v.err, hit |-> FALSE]
    ELSE IF ~v.value THEN [err |-> "none", hit |-> FALSE]
    ELSE IF b.err # "none" THEN [err |-> b.err, hit |-> FALSE]
    ELSE [err |-> "none",
          hit |-> isInBoundingBox(coords.x, coords.y, b.x, b.y, b.width, b.height)]

(* a test against bounds kept from the time the boxes were created *)
listenerMatchesKeptBounds(objs, cv, listeners, i, coords) ==
    matches(coords, shouldReceiveEvents(objs, listeners[i].displayObject),
            resolveBounds([m \in 1..Len(objs) |->
                              [objs[m] EXCEPT !.x = 50 * m, !.parent = 0]],
                          cv, listeners[i].displayObject))

(* does listener i match: the object receives events and holds the point *)
listenerMatches(objs, cv, listeners, i, coords) ==
    matches(coords, shouldReceiveEvents(objs, listeners[i].displayObject),
            resolveBounds(objs, cv, listeners[i].displayObject))

(* The steps of one event, in the order they are taken: the test of a      *)
(* listener (with what it gave) and the call of a callback                 *)
Tested(i, hit) == [step |-> "test", listener |-> i, hit |-> hit]
Called(i) == [step |-> "call", listener |-> i, hit |-> TRUE]

NoQueue == [err |-> "none", queue |-> <<>>, log |-> <<>>]

(* one turn of a first forEach that puts a match at the head of the queue *)
queuedInFront(acc, i, m) ==
    IF m.err # "none" THEN [acc EXCEPT !.err = m.err]
    ELSE [err |-> "none",
          queue |-> IF m.hit THEN <<i>> \o acc.queue ELSE acc.queue,
          log |-> Append(acc.log, Tested(i, m.hit))]

(* one turn of the first forEach: listener i was tested and gave m *)
queued(acc, i, m) ==
    IF m.err # "none" THEN [acc EXCEPT !.err = m.err]
    ELSE [err |-> "none",
          queue |-> IF m.hit THEN Append(acc.queue, i) ELSE acc.queue,
          log |-> Append(acc.log, Tested(i, m.hit))]

RECURSIVE matchLoop(_, _, _, _, _, _)

(* the first forEach of clickHandler: the queue of matching listeners *)
matchLoop(objs, cv, listeners, coords, i, acc) ==
    IF i > Len(listeners) \/ acc.err # "none" THEN acc
    ELSE matchLoop(objs, cv, listeners, coords, i + 1,
                   queued(acc, i, listenerMatches(objs, cv, listeners, i, coords)))

(* one turn of the second forEach: the callback of listener i was called   *)
(* and gave r                                                              *)
called(acc, i, r) ==
    [err |-> r.err, objs |-> r.objs, flag |-> r.flag, fired |-> Append(acc.fired, i),
     log |-> Append(acc.log, Called(i))]

RECURSIVE fireLoop(_, _, _, _, _)

(* the second forEach of clickHandler: call the queued callbacks in order; *)
(* effs[i] is what the callback of listener i does when it is called; acc  *)
(* holds the objects and the flag as the callbacks so far left them        *)
fireLoop(listeners, queue, effs, k, acc) ==
    IF k > Len(queue) \/ acc.err # "none" THEN acc
    ELSE fireLoop(listeners, queue, effs, k + 1,
                  called(acc, queue[k],
                         callback(acc.objs, acc.flag, listeners[queue[k]].displayObject,
                                  effectOf(effs, queue[k]))))

(* one turn of a loop that tests listener i and calls it at once *)
calledAtOnce(acc, i, m, r) ==
    IF m.err # "none" THEN [acc EXCEPT !.err = m.err]
    ELSE IF ~m.hit THEN [acc EXCEPT !.log = Append(acc.log, Tested(i, FALSE))]
    ELSE called([acc EXCEPT !.log = Append(acc.log, Tested(i, TRUE))], i, r)

RECURSIVE dispatchInterleaved(_, _, _, _, _, _)

(* a dispatcher that calls each callback as soon as its listener matches *)
dispatchInterleaved(cv, listeners, coords, effs, i, acc) ==
    IF i > Len(listeners) \/ acc.err # "none" THEN acc
    ELSE dispatchInterleaved(cv, listeners, coords, effs, i + 1,
             calledAtOnce(acc, i,
                          listenerMatches(acc.objs, cv, listeners, i, coords),
                          callback(acc.objs, acc.flag, listeners[i].displayObject,
                                   effectOf(effs, i))))

dispatchImmediately(objs, flag, cv, listeners, coords, effs) ==
    dispatchInterleaved(cv, listeners, coords, effs, 1,
                        [err |-> "none", objs |-> objs, flag |-> flag, fired |-> <<>>,
                         log |-> <<>>])

(* the second forEach, run on the queue m that the first one left *)
fireQueued(objs, flag, listeners, effs, m) ==
    IF m.err # "none"
    THEN [err |-> m.err, objs |-> objs, flag |-> flag, fired |-> <<>>, log |-> m.log]
    ELSE fireLoop(listeners, m.queue, effs, 1,
                  [err |-> "none", objs |-> objs, flag |-> flag, fired |-> <<>>,
                   log |-> m.log])

(* lines 339-353 of clickHandler: queue the matching callbacks, then call  *)
(* them                                                                    *)
dispatch(objs, flag, cv, listeners, coords, effs) ==
    fireQueued(objs, flag, listeners, effs,
               matchLoop(objs, cv, listeners, coords, 1, NoQueue))

(* lines 317-335 of clickHandler: the touch / mouse bookkeeping.  An event *)
(* is [type, touches, pageX, pageY]; touches is event.touches.length, and  *)
(* a page coordinate that is absent counts as 0 (both are falsy).          *)
touchFlag(touch, event) ==
    IF event.type = "touch"
    THEN IF event.touches > 0 THEN TRUE
         ELSE IF event.pageX # 0 /\ event.pageY # 0 THEN TRUE
         ELSE FALSE
    ELSE touch

hasCoords(event) ==
    IF event.type = "touch"
    THEN event.touches > 0 \/ (event.pageX # 0 /\ event.pageY # 0)
    ELSE TRUE

(* a handler that lets a mouse event through whatever the flag says *)
ignoredWithoutCoordsOnly(touch, event) == ~hasCoords(event)

ignored(touch, event) ==
    (touchFlag(touch, event) /\ event.type = "mouse") \/ ~hasCoords(event)

----------------------------------------------------------------------------
(* The asset loader (AssetLoader.js).  A loader function is named by the   *)
(* order in which it was pushed, and that name is also the key of its      *)
(* asset.  JavaScript arrays are objects held by reference: `arrays' holds *)
(* the collections ever made by push, and the queue and the working queue  *)
(* of a load hold places in it, so that a push into a collection is seen   *)
(* by a load that has not yet copied it.                                   *)

(* AssetLoader.maxConcurrency = Infinity *)
Infinity == 1000

(* a place of the queue that no push has filled: queue[i] is undefined *)
Undefined == 0

Min(a, b) == IF a <= b THEN a ELSE b

(* the working variables of lines 15-23, and with them what the closures   *)
(* of the calls of load hold (runs), whether a loader function calls done  *)
(* before it returns (sync), and the error the last call ended with        *)
NewAssetLoader(maxConcurrency) ==
    [maxConcurrency |-> maxConcurrency,
     assetProgress |-> {},
     loadedAssets |-> {},
     queue |-> <<>>,
     queueIdx |-> 0,
     arrays |-> <<>>,
     sync |-> <<>>,
     runs |-> <<>>,
     err |-> "none"]

(* the closure of one call of load: workingQueue of asyncQueue; collection *)
(* and numLoading of the asyncCollection that runs; pending, the loader    *)
(* functions called that have not yet called done; taken, the collections  *)
(* as asyncCollection copied them; log, the loader functions called and    *)
(* the calls of done in the order they were made; called, how often the    *)
(* callback given to load was called                                       *)
NewRun(queue) ==
    [workingQueue |-> queue, collection |-> <<>>, numLoading |-> 0, pending |-> {},
     taken |-> <<>>, log |-> <<>>, called |-> 0, err |-> "none"]

Started(f) == [ev |-> "start", func |-> f]
Done(f) == [ev |-> "done", func |-> f]

logged(al, r, entry) == [al EXCEPT !.runs[r].log = Append(@, entry)]

(* AssetLoader.queueNext *)
queueNext(al) == [al EXCEPT !.queueIdx = @ + 1]

(* queue[queueIdx] = [] of push: the queue grows to hold the place, and    *)
(* the places between stay undefined                                       *)
placed(queue, idx, ref) ==
    [i \in 1..(IF idx + 1 > Len(queue) THEN idx + 1 ELSE Len(queue)) |->
        IF i = idx + 1 THEN ref
        ELSE IF i <= Len(queue) THEN queue[i]
        ELSE Undefined]

(* AssetLoader.push(func); isSync tells whether func calls done before it  *)
(* returns (add.plainAudio) or from a later event (add.image, add.json...) *)
push(al, isSync) ==
    LET f == Len(al.sync) + 1
        fresh == al.queueIdx + 1 > Len(al.queue) \/ al.queue[al.queueIdx + 1] = Undefined
        ref == IF fresh THEN Len(al.arrays) + 1 ELSE al.queue[al.queueIdx + 1]
    IN  [al EXCEPT !.arrays = IF fresh THEN Append(@, <<f>>)
                              ELSE [@ EXCEPT ![ref] = Append(@, f)],
                   !.queue = IF fresh THEN placed(@, al.queueIdx, ref) ELSE @,
                   !.sync = Append(@, isSync)]

(* AssetLoader.done(key, asset), called by a loader function before its    *)
(* done: the asset is stored and its progress set to 1                     *)
done(al, key) ==
    [al EXCEPT !.loadedAssets = @ \cup {key}, !.assetProgress = @ \cup {key}]

(* the function load gives to asyncQueue: it resets the queue and the      *)
(* progress, and calls the callback                                        *)
loaded(al, r) ==
    [al EXCEPT !.queue = <<>>, !.assetProgress = {}, !.runs[r].called = @ + 1]

RECURSIVE next(_, _)
RECURSIVE loadAndContinue(_, _, _)
RECURSIVE signalled(_, _, _)
RECURSIVE forEach(_, _, _, _)

(* the function asyncQueue gives to asyncCollection *)
collectionDone(al, r) ==
    IF Len(al.runs[r].workingQueue) > 0 THEN next(al, r) ELSE loaded(al, r)

(* a collection counted as done as soon as one of its loaders is done *)
countedDownAtOnce(al, r, n) == collectionDone(al, r)

(* the last branch of the function loadAndContinue gives to func, with     *)
(* numLoading counted down to n and nothing left in collection            *)
countedDown(al, r, n) == IF n = 0 THEN collectionDone(al, r) ELSE al

(* the function loadAndContinue gives to func, called by loader function f *)
signalled(al, r, f) ==
    LET a == logged(done(al, f), r, Done(f))
        run == a.runs[r]
        n == run.numLoading - 1
    IN  IF Len(run.collection) > 0
        THEN loadAndContinue([a EXCEPT !.runs[r].collection = Tail(@)], r,
                             Head(run.collection))
        ELSE countedDown([a EXCEPT !.runs[r].numLoading = n], r, n)

(* loadAndContinue(func) of asyncCollection: func is called, and calls     *)
(* done at once or is left pending                                         *)
loadAndContinue(al, r, f) ==
    IF al.sync[f] THEN signalled(logged(al, r, Started(f)), r, f)
    ELSE [logged(al, r, Started(f)) EXCEPT !.runs[r].pending = @ \cup {f}]

(* collection.splice(0, maxConcurrency).forEach(loadAndContinue); what a   *)
(* call throws ends the loop                                               *)
forEach(al, r, first, i) ==
    IF i > Len(first) \/ al.runs[r].err # "none" THEN al
    ELSE forEach(loadAndContinue(al, r, first[i]), r, first, i + 1)

(* a splice that takes out the whole collection *)
spliceAll(collection, n) == Len(collection)

(* how many loaders collection.splice(0, maxConcurrency) takes out *)
splice(collection, n) == Min(n, Len(collection))

(* AssetLoader.asyncCollection(collection, callback) *)
asyncCollection(al, r, collection) ==
    LET k == splice(collection, al.maxConcurrency)
    IN  forEach([al EXCEPT !.runs[r].numLoading = Min(al.maxConcurrency, Len(collection)),
                           !.runs[r].collection = SubSeq(collection, k + 1, Len(collection)),
                           !.runs[r].taken = Append(@, collection)],
                r, SubSeq(collection, 1, k), 1)

(* next() of asyncQueue: workingQueue.shift() gives undefined when the     *)
(* working queue is empty or the place was never filled, and               *)
(* collection.slice() of asyncCollection then throws a TypeError           *)
next(al, r) ==
    LET wq == al.runs[r].workingQueue
    IN  IF wq = <<>> \/ Head(wq) = Undefined
        THEN [al EXCEPT !.runs[r].err = "TypeError",
                        !.runs[r].workingQueue = IF wq = <<>> THEN wq ELSE Tail(wq),
                        !.err = "TypeError"]
        ELSE asyncCollection([al EXCEPT !.runs[r].workingQueue = Tail(wq)], r,
                             al.arrays[Head(wq)])

(* AssetLoader.asyncQueue(queue, callback), for the call of load numbered r *)
asyncQueue(al, r) == next(al, r)

(* AssetLoader.load(callback) *)
load(al) ==
    asyncQueue([al EXCEPT !.runs = Append(@, NewRun(al.queue)), !.err = "none"],
               Len(al.runs) + 1)

(* a loader function left pending calls done from its event *)
onload(al, r, f) ==
    signalled([al EXCEPT !.runs[r].pending = @ \ {f}, !.err = "none"], r, f)

---------------------------------------------------------------------------
(* The values the operations are given *)

DefaultHeight == 720

GameCanvasSizes == {[width |-> 1280, height |-> 720], [width |-> 960, height |-> 720]}

(* createRectangle(color, x, y, width, height).  With the default pivot   *)
(* (0.5, 0.5) BoxA covers (0, 0)..(100, 100) and BoxB (50, 50)..(150, 150) *)
BoxA == <<50, 50, 100, 100>>
BoxB == <<100, 100, 100, 100>>
RectangleArgs == {<<50, 50, 100, 100>>, <<100, 50, 100, 100>>}

(* the fields written directly, and the values written to them *)
WriteProps == {"x", "visible", "parent"}

WriteValues(prop) ==
    IF prop = "x" THEN {50, 100}
    ELSE IF prop = "visible" THEN BOOLEAN
    ELSE {NoParent} \cup (1..Len(objects))

(* what a callback may do: nothing, hide another object, put it under      *)
(* some other object, move it                                              *)
Effects ==
    LET others == 1..(Len(objects) - 1) IN
    {NoEffect}
    \cup {[prop |-> "visible", d |-> d, value |-> 0] : d \in others}
    \cup {[prop |-> "parent", d |-> d, value |-> e] : d \in others, e \in others}
    \cup {[prop |-> "x", d |-> d, value |-> 100] : d \in others}

(* pointer events, in page coordinates: a touch with or without a touch    *)
(* point left, a mouse event                                               *)
Points == {<<40, 50>>, <<20, 30>>}

Events ==
    {[type |-> t, touches |-> IF t = "touch" THEN 1 ELSE 0, pageX |-> p[1], pageY |-> p[2]] :
        t \in {"touch", "mouse"}, p \in Points}
    \cup {[type |-> "touch", touches |-> 0, pageX |-> p[1], pageY |-> p[2]] :
             p \in {<<0, 0>>, <<40, 50>>}}

(* the listeners an event finds matching, as the state stands *)
queueOf(skip, m) ==
    IF skip \/ m.err # "none" THEN {} ELSE {m.queue[k] : k \in 1..Len(m.queue)}

Matching(event) ==
    queueOf(ignored(listeningToTouchEvents, event),
            matchLoop(objects, Canvas, eventListeners,
                      windowToUISpace(height, event.pageX, event.pageY), 1, NoQueue))

---------------------------------------------------------------------------
(* The operations *)

(* `last': the operation that ran last (op, and in arg the object and the  *)
(* field, the kind of event or the point and box it was given), whether it *)
(* threw (err), and what it did: the                                       *)
(* number of times it cleared the canvas, the objects whose render it      *)
(* called, the draw calls made (object and bounds), the callbacks it       *)
(* called, the point it tested and the steps it took (log), the bounds it  *)
(* returned, the answer of a hit test (inside), the number of times it set *)
(* texture.needsUpdate (texture) and called the host's renderer (host),     *)
(* the value it was given to write or returned from a read (value, a       *)
(* sequence of one value, a flag shown as 1 or 0).                         *)
Idle(op) ==
    [op |-> op, arg |-> <<>>, err |-> "none", cleared |-> 0, rendered |-> <<>>,
     drawn |-> <<>>, fired |-> <<>>, coords |-> <<>>, log |-> <<>>,
     bounds |-> Rect(0, 0, 0, 0), inside |-> FALSE, texture |-> 0, host |-> 0,
     value |-> <<>>, colorReplace |-> 0, tint |-> 0, uploaded |-> 0]

(* ThreeUI.prototype.resize, the width it derives *)
derivedWidth(h, gc) == (h * gc.width) \div gc.height

(* new ThreeUI(gameCanvas, height): the state the constructor leaves *)
Init ==
    /\ objects = <<>>
    /\ displayObjects = <<>>
    /\ eventListeners = <<>>
    /\ shouldReDraw = TRUE
    /\ listeningToTouchEvents = FALSE
    /\ gameCanvas = [width |-> 1280, height |-> 720]
    /\ height = DefaultHeight
    /\ width = derivedWidth(DefaultHeight, gameCanvas)
    /\ renderOnQuad = FALSE
    /\ AssetLoader = NewAssetLoader(Infinity)
    /\ last = Idle("new")

(* the host surface changes size and ThreeUI.prototype.resize is called *)
Resize(gc) ==
    /\ gameCanvas' = gc
    /\ width' = derivedWidth(height, gc)
    /\ shouldReDraw' = TRUE
    /\ last' = Idle("resize")
    /\ UNCHANGED <<objects, displayObjects, eventListeners, listeningToTouchEvents, height, renderOnQuad, AssetLoader>>

(* ThreeUI.prototype.createRectangle *)
CreateRectangle(a) ==
    /\ Len(objects) < MaxNodes
    /\ objects' = Append(objects, Rectangle(a[1], a[2], a[3], a[4]))
    /\ displayObjects' = Append(displayObjects, Len(objects) + 1)
    /\ last' = Idle("create")
    /\ UNCHANGED <<eventListeners, shouldReDraw, listeningToTouchEvents,
                   gameCanvas, width, height, renderOnQuad, AssetLoader>>

(* a value of field prop as `last' shows it: a number, a flag as 1 or 0,   *)
(* an object as 0                                                          *)
Shown(prop, value) ==
    IF prop = "visible" THEN (IF value THEN 1 ELSE 0)
    ELSE IF prop \in compoundProperties THEN 0
    ELSE value

(* the state a write of value leaves, given the result r of the setter *)
Written(n, prop, value, r) ==
    /\ objects' = r.objs
    /\ shouldReDraw' = r.flag
    /\ last' = [Idle("set") EXCEPT !.arg = <<n, prop>>, !.err = r.err,
                                   !.value = <<Shown(prop, value)>>]
    /\ UNCHANGED <<displayObjects, eventListeners, listeningToTouchEvents,
                   gameCanvas, width, height, renderOnQuad, AssetLoader>>

(* object.prop = value, for an observed field *)
SetProperty(n, prop, value) ==
    Written(n, prop, value, observedSet(objects, shouldReDraw, n, prop, value))

(* the state a read leaves, given the result r of the getter *)
Read(n, prop, r) ==
    /\ last' = [Idle("get") EXCEPT !.arg = <<n, prop>>, !.err = r.err,
                                   !.value = IF r.err = "none"
                                             THEN <<Shown(prop, r.value)>> ELSE <<>>]
    /\ UNCHANGED <<objects, displayObjects, eventListeners, shouldReDraw,
                   listeningToTouchEvents, gameCanvas, width, height, renderOnQuad, AssetLoader>>

(* object.prop, for an observed field *)
GetProperty(n, prop) == Read(n, prop, observedGet(objects, n, prop))

(* the state draw leaves, given its result r *)
Drawn(r) ==
    /\ shouldReDraw' = r.flag
    /\ last' = [Idle("draw") EXCEPT !.err = r.err, !.cleared = r.cleared,
                                    !.rendered = r.rendered, !.drawn = r.drawn,
                                    !.texture = needsUpdate(renderOnQuad, r)]
    /\ UNCHANGED <<objects, displayObjects, eventListeners, listeningToTouchEvents,
                   gameCanvas, width, height, renderOnQuad, AssetLoader>>

(* ThreeUI.prototype.draw *)
Draw == Drawn(draw(objects, Canvas, displayObjects, shouldReDraw))

(* the state render leaves, given the result r of its call of draw and    *)
(* the frame f its statements make                                         *)
Framed(r, colorReplace, f) ==
    /\ shouldReDraw' = r.flag
    /\ last' = [Idle("render") EXCEPT !.err = r.err, !.cleared = r.cleared,
                                      !.rendered = r.rendered, !.drawn = r.drawn,
                                      !.texture = needsUpdate(renderOnQuad, r),
                                      !.host = hostRender(renderOnQuad, r),
                                      !.colorReplace = IF colorReplace THEN 1 ELSE 0,
                                      !.tint = f.tint,
                                      !.uploaded = f.uploaded]
    /\ UNCHANGED <<objects, displayObjects, eventListeners, listeningToTouchEvents,
                   gameCanvas, width, height, renderOnQuad, AssetLoader>>

(* the state render leaves, given the result r of its call of draw;        *)
(* colorReplace is a field the constructor leaves out and the caller sets  *)
(* (or not) before the frame                                               *)
Rendered(r, colorReplace) ==
    Framed(r, colorReplace, frame(renderSteps, 1, renderOnQuad, colorReplace, r, NoFrame))

(* ThreeUI.prototype.render *)
Render(colorReplace) ==
    Rendered(draw(objects, Canvas, displayObjects, shouldReDraw), colorReplace)

(* ThreeUI.prototype.moveToFront *)
MoveToFront(n) ==
    /\ displayObjects' = moveToFront(displayObjects, n)
    /\ last' = [Idle("moveToFront") EXCEPT !.arg = <<n>>]
    /\ UNCHANGED <<objects, eventListeners, shouldReDraw, listeningToTouchEvents,
                   gameCanvas, width, height, renderOnQuad, AssetLoader>>

(* DisplayObject.prototype.onClick -> ThreeUI.prototype.addEventListener; *)
(* a callback is named by the place of its listener in the list            *)
OnClick(n) ==
    /\ Len(eventListeners) < MaxListeners
    /\ eventListeners' = Append(eventListeners,
                                [callback |-> Len(eventListeners) + 1, displayObject |-> n])
    /\ last' = Idle("onClick")
    /\ UNCHANGED <<objects, displayObjects, shouldReDraw, listeningToTouchEvents,
                   gameCanvas, width, height, renderOnQuad, AssetLoader>>

(* the state clickHandler leaves, given the point and the result r of the *)
(* dispatch                                                                *)
Clicked(event, coords, r) ==
    /\ listeningToTouchEvents' = touchFlag(listeningToTouchEvents, event)
    /\ IF ignored(listeningToTouchEvents, event)
       THEN /\ last' = [Idle("click") EXCEPT !.arg = <<event.type>>]
            /\ UNCHANGED <<objects, shouldReDraw>>
       ELSE /\ objects' = r.objs
            /\ shouldReDraw' = r.flag
            /\ last' = [Idle("click") EXCEPT !.arg = <<event.type>>,
                                             !.err = r.err, !.fired = r.fired,
                                             !.coords = <<coords.x, coords.y>>,
                                             !.log = r.log]
    /\ UNCHANGED <<displayObjects, eventListeners, gameCanvas, width, height, renderOnQuad, AssetLoader>>

(* ThreeUI.prototype.clickHandler *)
ClickHandler(event, effs) ==
    Clicked(event, windowToUISpace(height, event.pageX, event.pageY),
            dispatch(objects, shouldReDraw, Canvas, eventListeners,
                     windowToUISpace(height, event.pageX, event.pageY), effs))

---------------------------------------------------------------------------
(* Spec: the display list, the dirty tracker and the redraw scheduler, on a *)
(* canvas that keeps its size                                              *)

Next ==
    \/ \E a \in RectangleArgs : CreateRectangle(a)
    \/ \E n \in 1..Len(objects) : \E prop \in WriteProps :
          \E value \in WriteValues(prop) : SetProperty(n, prop, value)
    \/ Draw
    \/ \E n \in 1..Len(objects) : MoveToFront(n)

Spec == Init /\ [][Next]_vars

(* SpecClick: the click dispatcher, on a user interface that holds the     *)
(* boxes A and B                                                           *)

InitClick ==
    /\ objects = <<Rectangle(BoxA[1], BoxA[2], BoxA[3], BoxA[4]),
                   Rectangle(BoxB[1], BoxB[2], BoxB[3], BoxB[4])>>
    /\ displayObjects = <<1, 2>>
    /\ eventListeners = <<>>
    /\ shouldReDraw = TRUE
    /\ listeningToTouchEvents = FALSE
    /\ gameCanvas = [width |-> 1280, height |-> 720]
    /\ height = DefaultHeight
    /\ width = derivedWidth(DefaultHeight, gameCanvas)
    /\ renderOnQuad = FALSE
    /\ AssetLoader = NewAssetLoader(Infinity)
    /\ last = Idle("create")

NextClick ==
    \/ \E n \in 1..Len(objects) : OnClick(n)
    \/ \E event \in Events : \E effs \in [Matching(event) -> Effects] :
          ClickHandler(event, effs)
    \/ \E n \in 1..Len(objects) : \E prop \in WriteProps :
          \E value \in WriteValues(prop) : SetProperty(n, prop, value)
    \/ Draw

SpecClick == InitClick /\ [][NextClick]_vars

(* SpecAll: every operation of the user interface *)

NextAll ==
    \/ Next
    \/ NextClick
    \/ \E gc \in GameCanvasSizes : Resize(gc)

SpecAll == Init /\ [][NextAll]_vars

(* SpecHit: ThreeUI.isInBoundingBox on points in and around small boxes;  *)
(* a box is <<boundX, boundY, boundWidth, boundHeight>>                    *)

HitCoords == (0 - 1)..(MaxCoord + 1)

HitBoxes == {<<bx, by, bw, bh>> : bx \in {0, 1}, by \in {0, 2},
                                  bw \in {0, MaxCoord - 2}, bh \in {0, MaxCoord - 3}}

(* ThreeUI.isInBoundingBox(x, y, boundX, boundY, boundWidth, boundHeight) *)
HitTest(x, y, box) ==
    /\ last' = [Idle("isInBoundingBox") EXCEPT
                   !.arg = <<x, y>> \o box,
                   !.inside = isInBoundingBox(x, y, box[1], box[2], box[3], box[4])]
    /\ UNCHANGED <<objects, displayObjects, eventListeners, shouldReDraw,
                   listeningToTouchEvents, gameCanvas, width, height, renderOnQuad, AssetLoader>>

NextHit == \E x \in HitCoords : \E y \in HitCoords : \E box \in HitBoxes : HitTest(x, y, box)

SpecHit == Init /\ [][NextHit]_vars

(* SpecBounds: getBounds on chains of display objects.  The first object   *)
(* is laid out in one of Layouts; above it stand up to MaxDepth ancestors, *)
(* each plain, anchored to the far corner, or stretched.                   *)

MaxDepth == 2
MaxLoaders == 3
MaxQueueIdx == 2
MaxLoads == 2

Pivots == {<<0, 0>>, <<1, 1>>, <<2, 1>>, <<0, 2>>}

Anchors == {<<anchors.left, anchors.top>>, <<anchors.right, anchors.bottom>>,
            <<anchors.center, anchors.center>>, <<anchors.left, anchors.center>>}

Offsets ==
    {[left |-> Num(0),  top |-> Num(0),  right |-> Num(0),  bottom |-> Num(0)],
     [left |-> Num(64), top |-> Num(36), right |-> Num(16), bottom |-> Num(8)],
     [left |-> Num(64), top |-> Num(0),  right |-> Pct(50), bottom |-> Num(0)],
     [left |-> Pct(25), top |-> Pct(25), right |-> Pct(50), bottom |-> Pct(50)],
     [left |-> Num(0),  top |-> Pct(50), right |-> Num(0),  bottom |-> Num(30)]}

(* the layouts of an object 100 x 60 with raw position (x, y) *)
LayoutsAt(x, y, stretches) ==
    {[DisplayObject(x, y, 100, 60) EXCEPT
         !.pivot = [x |-> p[1], y |-> p[2]],
         !.anchor = [x |-> a[1], y |-> a[2]],
         !.stretch = [x |-> st[1], y |-> st[2]],
         !.offset = o] :
        p \in Pivots, a \in Anchors, st \in stretches, o \in Offsets}

(* every layout at (10, 20), and the unstretched ones at (0, 0) too *)
Layouts ==
    LayoutsAt(10, 20, BOOLEAN \X BOOLEAN) \cup LayoutsAt(0, 0, {<<FALSE, FALSE>>})

AncestorLayouts ==
    {[DisplayObject(30, 40, 200, 100) EXCEPT !.pivot = [x |-> 0, y |-> 0]],
     [DisplayObject(30, 40, 200, 100) EXCEPT
         !.pivot = [x |-> 2, y |-> 2],
         !.anchor = [x |-> anchors.right, y |-> anchors.bottom]],
     [DisplayObject(0, 0, 40, 20) EXCEPT
         !.stretch = [x |-> TRUE, y |-> TRUE],
         !.offset = [left |-> Num(0), top |-> Num(30), right |-> Pct(50), bottom |-> Num(0)]]}

(* object k of a chain has object k + 1 for parent, the last has none *)
Chain(first, ancestors) ==
    LET all == <<first>> \o ancestors IN
    [k \in 1..Len(all) |->
        [all[k] EXCEPT !.parent = IF k < Len(all) THEN k + 1 ELSE NoParent]]

Chains(depth) == [1..depth -> AncestorLayouts]

InitBounds ==
    /\ \E first \in Layouts : \E depth \in 0..MaxDepth : \E ancestors \in Chains(depth) :
          /\ objects = Chain(first, ancestors)
          /\ displayObjects = [k \in 1..(depth + 1) |-> k]
    /\ eventListeners = <<>>
    /\ shouldReDraw = TRUE
    /\ listeningToTouchEvents = FALSE
    /\ gameCanvas \in GameCanvasSizes
    /\ height = DefaultHeight
    /\ width = derivedWidth(DefaultHeight, gameCanvas)
    /\ renderOnQuad = FALSE
    /\ AssetLoader = NewAssetLoader(Infinity)
    /\ last = Idle("create")

(* a getBounds that stores the position it found in the object *)
GotAndStored(n, b) ==
    /\ last' = [Idle("getBounds") EXCEPT !.arg = <<n>>, !.err = b.err, !.bounds = b]
    /\ objects' = [objects EXCEPT ![n].x = b.x]
    /\ shouldReDraw' = TRUE
    /\ UNCHANGED <<displayObjects, eventListeners, listeningToTouchEvents,
                   gameCanvas, width, height, renderOnQuad, AssetLoader>>

(* the state a call of getBounds on object n leaves, given its result b *)
Got(n, b) ==
    /\ last' = [Idle("getBounds") EXCEPT !.arg = <<n>>, !.err = b.err, !.bounds = b]
    /\ UNCHANGED <<objects, displayObjects, eventListeners, shouldReDraw,
                   listeningToTouchEvents, gameCanvas, width, height, renderOnQuad, AssetLoader>>

(* DisplayObject.prototype.getBounds, called on object n *)
GetBounds(n) == Got(n, resolveBounds(objects, Canvas, n))

NextBounds == \E n \in 1..Len(objects) : GetBounds(n)

SpecBounds == InitBounds /\ [][NextBounds]_vars

(* SpecRender: frames of a user interface that renders on a quad or in the *)
(* DOM, between writes to its objects, reads of them and calls of          *)
(* getBounds                                                               *)

(* new ThreeUI(gameCanvas, height, renderOnQuad) *)
InitRender ==
    /\ objects = <<>>
    /\ displayObjects = <<>>
    /\ eventListeners = <<>>
    /\ shouldReDraw = TRUE
    /\ listeningToTouchEvents = FALSE
    /\ gameCanvas = [width |-> 1280, height |-> 720]
    /\ height = DefaultHeight
    /\ width = derivedWidth(DefaultHeight, gameCanvas)
    /\ renderOnQuad \in BOOLEAN
    /\ AssetLoader = NewAssetLoader(Infinity)
    /\ last = Idle("new")

NextRender ==
    \/ \E a \in RectangleArgs : CreateRectangle(a)
    \/ \E n \in 1..Len(objects) : \E prop \in WriteProps :
          \E value \in WriteValues(prop) : SetProperty(n, prop, value)
    \/ \E colorReplace \in BOOLEAN : Render(colorReplace)
    \/ \E n \in 1..Len(objects) : GetBounds(n)
    \/ \E n \in 1..Len(objects) : \E prop \in WriteProps : GetProperty(n, prop)

SpecRender == InitRender /\ [][NextRender]_vars

(* SpecUsage: the boxes A and B, each with a click listener; A is given a  *)
(* parent that is no display object, is hidden and shown, stretched and    *)
(* anchored, between calls of getBounds, draw passes and clicks on         *)
(* (60, 60)                                                                *)

InitUsage ==
    /\ objects = <<Rectangle(BoxA[1], BoxA[2], BoxA[3], BoxA[4]),
                   Rectangle(BoxB[1], BoxB[2], BoxB[3], BoxB[4])>>
    /\ displayObjects = <<1, 2>>
    /\ eventListeners = <<[callback |-> 1, displayObject |-> 1],
                          [callback |-> 2, displayObject |-> 2]>>
    /\ shouldReDraw = TRUE
    /\ listeningToTouchEvents = FALSE
    /\ gameCanvas = [width |-> 1280, height |-> 720]
    /\ height = DefaultHeight
    /\ width = derivedWidth(DefaultHeight, gameCanvas)
    /\ renderOnQuad = FALSE
    /\ AssetLoader = NewAssetLoader(Infinity)
    /\ last = Idle("onClick")

UsageProps == {"parent", "visible", "stretch", "anchor"}

UsageValues(prop) ==
    IF prop = "parent" THEN {NoParent, 2} \cup NonNodes
    ELSE IF prop = "visible" THEN BOOLEAN
    ELSE IF prop = "stretch"
    THEN {[x |-> FALSE, y |-> FALSE], [x |-> TRUE, y |-> FALSE], [x |-> TRUE, y |-> TRUE]}
    ELSE {[x |-> anchors.left, y |-> anchors.top], [x |-> anchors.center, y |-> anchors.center]}

MouseClick == [type |-> "mouse", touches |-> 0, pageX |-> 40, pageY |-> 50]

NextUsage ==
    \/ \E prop \in UsageProps : \E value \in UsageValues(prop) : SetProperty(1, prop, value)
    \/ \E n \in 1..Len(objects) : GetBounds(n)
    \/ Draw
    \/ ClickHandler(MouseClick, <<>>)

SpecUsage == InitUsage /\ [][NextUsage]_vars

(* SpecOffsets: the offset of box A is assigned as a whole, or one edge of *)
(* it in place, and A is stretched on one axis or none, between calls of   *)
(* getBounds and draw passes                                               *)

Edges == {"left", "top", "right", "bottom"}

NoOffset == [left |-> Num(0), top |-> Num(0), right |-> Num(0), bottom |-> Num(0)]

(* the offsets assigned: none, one edge that cannot be read, a percentage *)
OffsetValues ==
    {NoOffset, [NoOffset EXCEPT !.right = Pct(50)]}
    \cup {[NoOffset EXCEPT ![k] = OtherString] : k \in Edges}
    \cup {[NoOffset EXCEPT !.top = Null]}

EdgeValues == {Num(0), Num(64)}

StretchValues ==
    {[x |-> FALSE, y |-> FALSE], [x |-> TRUE, y |-> FALSE], [x |-> FALSE, y |-> TRUE]}

(* an edge assignment that goes through an observed setter *)
SetOffsetEdgeObserved(n, edge, value) ==
    /\ objects' = [objects EXCEPT ![n].offset[edge] = value]
    /\ shouldReDraw' = (shouldReDraw \/ objects[n].offset[edge] # value)
    /\ last' = [Idle("setEdge") EXCEPT !.arg = <<n, edge>>]
    /\ UNCHANGED <<displayObjects, eventListeners, listeningToTouchEvents,
                   gameCanvas, width, height, renderOnQuad, AssetLoader>>

(* object.offset.left = value (or top, right, bottom): the getter of       *)
(* `offset' returns the object held, and the assignment to its edge goes   *)
(* through no setter of observeDirtyProperties                             *)
SetOffsetEdge(n, edge, value) ==
    /\ objects' = [objects EXCEPT ![n].offset[edge] = value]
    /\ last' = [Idle("setEdge") EXCEPT !.arg = <<n, edge>>]
    /\ UNCHANGED <<displayObjects, eventListeners, shouldReDraw, listeningToTouchEvents,
                   gameCanvas, width, height, renderOnQuad, AssetLoader>>

NextOffsets ==
    \/ \E value \in StretchValues : SetProperty(1, "stretch", value)
    \/ \E value \in OffsetValues : SetProperty(1, "offset", value)
    \/ \E edge \in Edges : \E value \in EdgeValues : SetOffsetEdge(1, edge, value)
    \/ \E n \in 1..Len(objects) : GetBounds(n)
    \/ Draw

SpecOffsets == InitClick /\ [][NextOffsets]_vars

(* SpecLoader: assets are added, queueNext and load are called, and the    *)
(* loader functions left pending call done, in any order                   *)

ConcurrencyLimits == {1, 2, Infinity}

InitLoader ==
    /\ objects = <<>>
    /\ displayObjects = <<>>
    /\ eventListeners = <<>>
    /\ shouldReDraw = TRUE
    /\ listeningToTouchEvents = FALSE
    /\ gameCanvas = [width |-> 1280, height |-> 720]
    /\ height = DefaultHeight
    /\ width = derivedWidth(DefaultHeight, gameCanvas)
    /\ renderOnQuad = FALSE
    /\ AssetLoader \in {NewAssetLoader(c) : c \in ConcurrencyLimits}
    /\ last = Idle("new")

ui == <<objects, displayObjects, eventListeners, shouldReDraw, listeningToTouchEvents,
        gameCanvas, width, height, renderOnQuad, last>>

(* AssetLoader.add.image(asset), add.json(asset)... (isSync FALSE) and     *)
(* AssetLoader.add.plainAudio(asset) (isSync TRUE): a loader is pushed     *)
AddAsset(isSync) ==
    /\ Len(AssetLoader.sync) < MaxLoaders
    /\ AssetLoader' = push([AssetLoader EXCEPT !.err = "none"], isSync)
    /\ UNCHANGED ui

(* AssetLoader.queueNext() *)
QueueNext ==
    /\ AssetLoader.queueIdx < MaxQueueIdx
    /\ AssetLoader' = queueNext([AssetLoader EXCEPT !.err = "none"])
    /\ UNCHANGED ui

(* AssetLoader.load(callback) *)
Load ==
    /\ Len(AssetLoader.runs) < MaxLoads
    /\ AssetLoader' = load(AssetLoader)
    /\ UNCHANGED ui

(* the event of a pending loader: img.onload, el.onload, the XHR callback *)
Onload(r, f) ==
    /\ r \in 1..Len(AssetLoader.runs)
    /\ f \in AssetLoader.runs[r].pending
    /\ AssetLoader' = onload(AssetLoader, r, f)
    /\ UNCHANGED ui

NextLoader ==
    \/ \E isSync \in BOOLEAN : AddAsset(isSync)
    \/ QueueNext
    \/ Load
    \/ \E r \in 1..MaxLoads : \E f \in 1..MaxLoaders : Onload(r, f)

SpecLoader == InitLoader /\ [][NextLoader]_vars

---------------------------------------------------------------------------
(* Dirty tracking and the redraw scheduler *)

(* C1: a direct write to an observed field (also `visible' of an object    *)
(* that has a parent) leaves shouldReDraw as it was when the value written *)
(* equals the value a read of the field returns, and sets it to TRUE when  *)
(* the value differs.  A read that does not return (a cyclic parent chain) *)
(* returns no equal value.                                                 *)
C1_WriteSetsFlagIffValueDiffers ==
    [][last'.op = "set" =>
          LET n    == last'.arg[1]
              prop == last'.arg[2]
              cur  == observedGet(objects, n, prop)
          IN  \A value \in WriteValues(prop) :
                  SetProperty(n, prop, value) =>
                      IF cur.err = "none" /\ cur.value = value
                      THEN shouldReDraw' = shouldReDraw
                      ELSE shouldReDraw' = TRUE]_vars

(* a write of `visible' to an object under a parent has left the flag FALSE *)
C1_Witness ==
    /\ last.op = "set"
    /\ Len(last.arg) = 2
    /\ last.arg[2] = "visible"
    /\ objects[last.arg[1]].parent \notin {NoParent, last.arg[1]}
    /\ ~objects[objects[last.arg[1]].parent].visible
    /\ ~shouldReDraw

(* the draw calls a completed pass makes: for each object of the list that *)
(* reads visible, in the order of the list, the object and its bounds      *)
VisibleNow(objs, n) ==
    LET v == observedGet(objs, n, "visible") IN v.err = "none" /\ v.value

ExpectedDrawn(objs, cv, list) ==
    LET shown == SelectSeq(list, LAMBDA n : VisibleNow(objs, n)) IN
    [k \in 1..Len(shown) |-> [node |-> shown[k], bounds |-> resolveBounds(objs, cv, shown[k])]]

(* C2: draw() with shouldReDraw FALSE does nothing (no clear, no render,   *)
(* no draw call, the flag stays FALSE); with shouldReDraw TRUE it clears   *)
(* the canvas once and, when it returns normally, has rendered every       *)
(* object of the list and leaves the flag FALSE.                           *)
C2_DrawOnlyWhenDirty ==
    [][(last'.op = "draw" /\ Draw) =>
          IF ~shouldReDraw
          THEN /\ last'.cleared = 0
               /\ last'.rendered = <<>>
               /\ last'.drawn = <<>>
               /\ ~shouldReDraw'
          ELSE /\ last'.cleared = 1
               /\ last'.err = "none" =>
                     /\ last'.rendered = displayObjects
                     /\ last'.drawn = ExpectedDrawn(objects, Canvas, displayObjects)
                     /\ ~shouldReDraw']_vars

(* draw() ran on a clean user interface that holds a visible object *)
C2_Witness ==
    /\ last.op = "draw"
    /\ last.cleared = 0
    /\ ~shouldReDraw
    /\ \E n \in 1..Len(objects) : VisibleNow(objects, n)

(* C3: shouldReDraw goes from TRUE to FALSE only in a step that is a       *)
(* draw() pass that cleared the canvas, called render on every object of   *)
(* the list and returned normally.                                         *)
C3_OnlyCompletedDrawClears ==
    [][(shouldReDraw /\ ~shouldReDraw') =>
          /\ last'.op = "draw"
          /\ last'.err = "none"
          /\ last'.cleared = 1
          /\ last'.rendered = displayObjects
          /\ displayObjects' = displayObjects]_vars

(* a pass over two objects has cleared the flag, with listeners registered *)
C3_Witness ==
    /\ last.op = "draw"
    /\ last.cleared = 1
    /\ Len(last.rendered) = 2
    /\ Len(eventListeners) > 0
    /\ ~shouldReDraw

NoDuplicates(list) == \A i, j \in 1..Len(list) : list[i] = list[j] => i = j

IsPrefix(s, t) == Len(s) <= Len(t) /\ SubSeq(t, 1, Len(s)) = s

(* C9: a draw pass calls render on the objects in the order of the list,   *)
(* each listed object once (up to the object whose render throws, if one   *)
(* does); the list holds the objects in the order of their creation,       *)
(* changed by moveToFront alone.                                           *)
C9_RenderInListOrder ==
    [][/\ NoDuplicates(displayObjects')
       /\ (last'.op = "draw" /\ shouldReDraw /\ Draw) =>
             /\ IsPrefix(last'.rendered, displayObjects)
             /\ last'.err = "none" => last'.rendered = displayObjects
       /\ displayObjects' # displayObjects =>
             \/ last'.op = "moveToFront"
             \/ /\ last'.op = "create"
                /\ displayObjects' = Append(displayObjects, Len(objects'))]_vars

(* a pass rendered the second object created before the first *)
C9_Witness ==
    /\ last.op = "draw"
    /\ last.err = "none"
    /\ last.rendered = <<2, 1>>

---------------------------------------------------------------------------
(* The click dispatcher *)

(* the listeners whose object receives events and holds the point, as the  *)
(* state stands                                                            *)
Eligible(objs, cv, listeners, x, y) ==
    {i \in 1..Len(listeners) :
        LET n == listeners[i].displayObject
            b == resolveBounds(objs, cv, n)
        IN  /\ VisibleNow(objs, n)
            /\ b.err = "none"
            /\ x >= b.x /\ x <= b.x + b.width
            /\ y >= b.y /\ y <= b.y + b.height}

Range(s) == {s[k] : k \in 1..Len(s)}

(* C4: for one click event the callbacks called are those of the listeners *)
(* whose object was eligible and held the point before the first callback  *)
(* ran, whatever the callbacks write (hide, re-parent or move another      *)
(* object): exactly those when the handler returns, each once, and never   *)
(* one outside them when a callback's write throws and ends the event.     *)
C4_FiredAreThoseQueuedBefore ==
    [][(last'.op = "click" /\ last'.coords # <<>>) =>
          LET before == Eligible(objects, Canvas, eventListeners,
                                 last'.coords[1], last'.coords[2])
          IN  /\ Range(last'.fired) \subseteq before
              /\ NoDuplicates(last'.fired)
              /\ last'.err = "none" => Range(last'.fired) = before]_vars

(* A was registered first, B second, the click fell on (60, 60), both     *)
(* callbacks were called and B is now hidden                               *)
C4_Witness ==
    /\ last.op = "click"
    /\ last.err = "none"
    /\ last.coords = <<60, 60>>
    /\ Len(eventListeners) = 2
    /\ eventListeners[1].displayObject = 1
    /\ eventListeners[2].displayObject = 2
    /\ last.fired = <<1, 2>>
    /\ ~objects[2].visible

(* the places of the log where a callback is called, a listener is tested *)
Calls(log) == {k \in 1..Len(log) : log[k].step = "call"}
Tests(log) == {k \in 1..Len(log) : log[k].step = "test"}

(* C11: within one click event the callbacks are called in the order their *)
(* listeners were registered (the order of eventListeners), no callback is *)
(* called before every registered listener has been tested, only matched   *)
(* listeners are called, and when the handler returns each matched         *)
(* listener has been called exactly once.                                  *)
C11_CallbacksInRegistrationOrder ==
    [][(last'.op = "click" /\ last'.coords # <<>>) =>
          LET log == last'.log
          IN  /\ \A j, k \in Calls(log) : j < k => log[j].listener < log[k].listener
              /\ \A k \in Calls(log) : \A i \in 1..Len(eventListeners) :
                     \E j \in Tests(log) : j < k /\ log[j].listener = i
              /\ \A k \in Calls(log) :
                     \E j \in Tests(log) : log[j].listener = log[k].listener /\ log[j].hit
              /\ last'.err = "none" =>
                     \A j \in Tests(log) : log[j].hit =>
                        Cardinality({k \in Calls(log) :
                                        log[k].listener = log[j].listener}) = 1]_vars

(* two callbacks registered on the same object, A, were both called, in    *)
(* the order of their registration, after both listeners had been tested   *)
C11_Witness ==
    /\ last.op = "click"
    /\ Len(eventListeners) = 2
    /\ eventListeners[1].displayObject = 1
    /\ eventListeners[2].displayObject = 1
    /\ last.log = <<Tested(1, TRUE), Tested(2, TRUE), Called(1), Called(2)>>

(* C12: the hit test is inclusive on all four edges: the point (x, y) is   *)
(* inside the box iff boundX <= x <= boundX + boundWidth and               *)
(* boundY <= y <= boundY + boundHeight; with y in range, a point with      *)
(* x = boundX + boundWidth is inside and one a pixel further is outside.   *)
C12_HitTestInclusive ==
    last.op = "isInBoundingBox" =>
        LET x == last.arg[1]
            y == last.arg[2]
            farX == last.arg[3] + last.arg[5]
            farY == last.arg[4] + last.arg[6]
        IN  /\ last.inside <=> (x \in last.arg[3]..farX /\ y \in last.arg[4]..farY)
            /\ (y \in last.arg[4]..farY /\ x = farX) => last.inside
            /\ x = farX + 1 => ~last.inside

(* a point on the far edge of a box that has a width was found inside *)
C12_Witness ==
    /\ last.op = "isInBoundingBox"
    /\ last.arg[5] > 0
    /\ last.arg[1] = last.arg[3] + last.arg[5]
    /\ last.arg[2] = last.arg[4] + last.arg[6]
    /\ last.inside

RECURSIVE UpTo(_, _, _)

(* the objects reached from those in S in at most k steps up the parents *)
UpTo(objs, S, k) ==
    IF k = 0 THEN S
    ELSE UpTo(objs, S \cup ({objs[m].parent : m \in S} \ {NoParent}), k - 1)

(* object n and the objects up its chain of parents *)
ParentChain(objs, n) == UpTo(objs, {n}, Len(objs))

(* the point (x, y) lies in the bounds of object n *)
Holds(objs, cv, n, x, y) ==
    LET b == resolveBounds(objs, cv, n)
    IN  /\ b.err = "none"
        /\ x >= b.x /\ x <= b.x + b.width
        /\ y >= b.y /\ y <= b.y + b.height

(* C13 as stated: click eligibility depends on the object's own visible    *)
(* flag only; when a click is dispatched and the handler returns, every    *)
(* listener whose object has its own visible flag set and holds the point  *)
(* is called, whatever the state of the object's parents.                  *)
C13_OwnFlagDecides ==
    [][(last'.op = "click" /\ last'.coords # <<>> /\ last'.err = "none") =>
          \A i \in 1..Len(eventListeners) :
             (/\ objects[eventListeners[i].displayObject].visible
              /\ Holds(objects, Canvas, eventListeners[i].displayObject,
                       last'.coords[1], last'.coords[2]))
             => i \in Range(last'.fired)]_vars

(* C13, amended: click eligibility is what a read of the object's visible  *)
(* field returns, and the read is true only when the object's own flag and *)
(* that of every object up its chain of parents are set.  A listener is    *)
(* called only if its object and the whole chain are visible and the       *)
(* object holds the point (so an object whose own flag is set under a      *)
(* hidden parent gets no callback); when the handler returns, every such   *)
(* listener has been called.                                               *)
C13_ChainDecides ==
    [][(last'.op = "click" /\ last'.coords # <<>>) =>
          \A i \in 1..Len(eventListeners) :
             LET n == eventListeners[i].displayObject
                 shown == \A m \in ParentChain(objects, n) : objects[m].visible
                 held == Holds(objects, Canvas, n, last'.coords[1], last'.coords[2])
             IN  /\ i \in Range(last'.fired) => shown /\ held
                 /\ (last'.err = "none" /\ shown /\ held) => i \in Range(last'.fired)]_vars

(* B stands under A, A is hidden and B's own flag is set; a click on       *)
(* (60, 60), inside B, was dispatched and B's callback was not called      *)
C13_Witness ==
    /\ last.op = "click"
    /\ last.err = "none"
    /\ last.coords = <<60, 60>>
    /\ last.fired = <<>>
    /\ \E i \in 1..Len(eventListeners) : eventListeners[i].displayObject = 2
    /\ objects[2].visible
    /\ objects[2].parent = 1
    /\ ~objects[1].visible
    /\ Holds(objects, Canvas, 2, 60, 60)

(* a mouse event, arriving now, would have a callback called *)
MouseWouldFire == \E event \in Events : event.type = "mouse" /\ Matching(event) # {}

(* C14 as stated: once a handled touch event has marked the stream as      *)
(* touch-originated, every following mouse event calls no callback: after  *)
(* any step taken from a marked state, a mouse event still finds no        *)
(* callback to call.                                                       *)
C14_OnceMarkedNoMouseClick ==
    [][listeningToTouchEvents => ~MouseWouldFire']_vars

(* C14, amended: a mouse event received while the stream is marked         *)
(* touch-originated calls no callback and is not dispatched; a mouse event *)
(* calls callbacks only while the stream is not marked, and leaves the     *)
(* mark as it is; a touch event that is handled (it carries a point)       *)
(* leaves the stream marked, so the mouse event that follows a handled     *)
(* touch calls nothing; the mark is cleared by a touch event that carries  *)
(* no point, and by nothing else.                                          *)
C14_MouseSuppressedWhileMarked ==
    [][/\ last'.op # "click" => listeningToTouchEvents' = listeningToTouchEvents
       /\ last'.op = "click" =>
             LET mouse == last'.arg = <<"mouse">>
                 touch == last'.arg = <<"touch">>
                 dispatched == last'.coords # <<>>
             IN  /\ (mouse /\ listeningToTouchEvents) => (~dispatched /\ last'.fired = <<>>)
                 /\ (mouse /\ last'.fired # <<>>) => ~listeningToTouchEvents
                 /\ (mouse /\ ~listeningToTouchEvents) => dispatched
                 /\ mouse => listeningToTouchEvents' = listeningToTouchEvents
                 /\ (touch /\ dispatched) => listeningToTouchEvents'
                 /\ (touch /\ ~dispatched) => ~listeningToTouchEvents']_vars

(* the stream is marked and a mouse event has just been received: it       *)
(* called nothing, though at each point a listener stood ready             *)
C14_Witness ==
    /\ listeningToTouchEvents
    /\ last.op = "click"
    /\ last.arg = <<"mouse">>
    /\ last.fired = <<>>
    /\ \A p \in Points :
          Eligible(objects, Canvas, eventListeners,
                   windowToUISpace(height, p[1], p[2]).x,
                   windowToUISpace(height, p[1], p[2]).y) # {}

(* C15: when the user interface renders on a quad, a frame (one call of    *)
(* render) sets texture.needsUpdate only if shouldReDraw was TRUE at its   *)
(* start, so only if its draw repainted; it sets it, once, whenever the    *)
(* flag was TRUE and render returns; a frame that starts with the flag     *)
(* FALSE repaints nothing and does not set it.  A user interface in the    *)
(* DOM has no texture to flag.                                             *)
C15_TextureFlaggedIffRepainted ==
    [][last'.op = "render" =>
          /\ last'.texture = 1 => (renderOnQuad /\ shouldReDraw /\ last'.cleared = 1)
          /\ (renderOnQuad /\ shouldReDraw /\ last'.err = "none") => last'.texture = 1
          /\ ~shouldReDraw => (last'.texture = 0 /\ last'.cleared = 0)
          /\ last'.texture \in {0, 1}]_vars

(* a frame on a quad has just repainted two objects and flagged the texture *)
C15_Witness ==
    /\ renderOnQuad
    /\ last.op = "render"
    /\ last.texture = 1
    /\ Len(last.rendered) = 2
    /\ ~shouldReDraw

---------------------------------------------------------------------------
(* The bounds resolver *)

(* getBounds has just returned the bounds of object n *)
Resolved(n) ==
    /\ last.op = "getBounds"
    /\ last.arg = <<n>>
    /\ last.err = "none"

(* the rectangle an object is laid out in: the bounds of its parent, or    *)
(* the canvas                                                              *)
ParentRect(n) ==
    IF objects[n].parent = NoParent THEN Rect(0, 0, width, height)
    ELSE resolveBounds(objects, Canvas, objects[n].parent)

(* an offset edge in pixels: a number as it is, "p%" as p / 100 of a length *)
EdgeOf(value, length) ==
    IF value.kind = "number" THEN value.v ELSE (value.v * length) \div 100

(* raw size times pivot (the pivot is stored in halves) *)
PivotShift(size, pivot) == (size * pivot) \div 2

Plain(node) ==
    /\ ~node.stretch.x /\ ~node.stretch.y
    /\ node.anchor = [x |-> anchors.left, y |-> anchors.top]
    /\ node.pivot = [x |-> 0, y |-> 0]
    /\ \A k \in {"left", "top", "right", "bottom"} : node.offset[k] = Num(0)

(* C6: an object not stretched, anchored left and top, with pivot (0, 0)   *)
(* and no offsets has for x and y those of its parent's bounds plus its    *)
(* own raw x and y, however long the chain of parents.                     *)
C6_PlainObjectFollowsParent ==
    \A n \in 1..Len(objects) :
        (Resolved(n) /\ Plain(objects[n])) =>
            /\ last.bounds.x = ParentRect(n).x + objects[n].x
            /\ last.bounds.y = ParentRect(n).y + objects[n].y

(* a plain object under a parent that has a parent, away from the origin *)
C6_Witness ==
    /\ Resolved(1)
    /\ Plain(objects[1])
    /\ Len(objects) = 3
    /\ ParentRect(1).x # 0 /\ ParentRect(1).y # 0
    /\ ParentRect(2).x # 0

(* the position before the pivot is applied *)
Unpivoted(n) ==
    LET node == objects[n]
        P == ParentRect(n)
    IN  [x |-> IF node.stretch.x THEN P.x + EdgeOf(node.offset.left, P.width)
               ELSE IF node.anchor.x = anchors.left THEN P.x + node.x
               ELSE IF node.anchor.x = anchors.right THEN P.x + P.width - node.x
               ELSE P.x + (P.width \div 2) + node.x,
         y |-> IF node.stretch.y THEN P.y + EdgeOf(node.offset.top, P.width)
               ELSE IF node.anchor.y = anchors.top THEN P.y + node.y
               ELSE IF node.anchor.y = anchors.bottom THEN P.y + P.height - node.y
               ELSE P.y + (P.height \div 2) + node.y]

C8_PercentOfParentWidth ==
    \A n \in 1..Len(objects) :
        Resolved(n) =>
            LET node == objects[n]
                P == ParentRect(n)
                W == P.width
                Px(value) == (value.v * W) \div 100
            IN  /\ (node.stretch.x /\ node.offset.left.kind = "percent") =>
                      last.bounds.x + PivotShift(node.width, node.pivot.x)
                          = P.x + Px(node.offset.left)
                /\ (node.stretch.y /\ node.offset.top.kind = "percent") =>
                      last.bounds.y + PivotShift(node.height, node.pivot.y)
                          = P.y + Px(node.offset.top)
                /\ (node.stretch.x /\ node.offset.left.kind = "number"
                        /\ node.offset.right.kind = "percent") =>
                      last.bounds.width = W - node.offset.left.v - Px(node.offset.right)
                /\ (node.stretch.y /\ node.offset.top.kind = "number"
                        /\ node.offset.bottom.kind = "percent") =>
                      last.bounds.height = P.height - node.offset.top.v - Px(node.offset.bottom)
                /\ (node.stretch.x /\ node.offset.left.kind = "number"
                        /\ node.offset.right = Pct(50)) =>
                      last.bounds.width = W - node.offset.left.v - (W \div 2)

(* an object stretched on both axes with "25%" at the top, "50%" at the    *)
(* bottom and "50%" on the right, under a parent wider than high           *)
C8_Witness ==
    /\ Resolved(1)
    /\ objects[1].stretch.x /\ objects[1].stretch.y
    /\ objects[1].offset.top = Pct(25)
    /\ objects[1].offset.bottom = Pct(50)
    /\ objects[1].offset.right = Pct(50)
    /\ ParentRect(1).width # ParentRect(1).height

(* C16 as stated: with a centre anchor on an unstretched axis and raw      *)
(* coordinate 0 on it, the resolved position on the axis is the parent's   *)
(* origin plus half the parent's size.                                     *)
C16_CentreAnchorAtHalfParent ==
    \A n \in 1..Len(objects) :
        Resolved(n) =>
            LET node == objects[n]
                P == ParentRect(n)
            IN  /\ (~node.stretch.x /\ node.anchor.x = anchors.center /\ node.x = 0) =>
                      last.bounds.x = P.x + (P.width \div 2)
                /\ (~node.stretch.y /\ node.anchor.y = anchors.center /\ node.y = 0) =>
                      last.bounds.y = P.y + (P.height \div 2)

(* C16, amended: with a centre anchor on an unstretched axis and raw       *)
(* coordinate 0 on it, the resolved position on the axis is the parent's   *)
(* origin plus half the parent's size, less the raw size times the pivot:  *)
(* the half-way point itself for pivot 0, and the point that puts the      *)
(* object's middle there for the default pivot 0.5.                        *)
C16_CentreAnchorLessPivot ==
    \A n \in 1..Len(objects) :
        Resolved(n) =>
            LET node == objects[n]
                P == ParentRect(n)
            IN  /\ (~node.stretch.x /\ node.anchor.x = anchors.center /\ node.x = 0) =>
                      /\ last.bounds.x
                            = P.x + (P.width \div 2) - PivotShift(node.width, node.pivot.x)
                      /\ node.pivot.x = 0 => last.bounds.x = P.x + (P.width \div 2)
                      /\ node.pivot.x = 1 =>
                            last.bounds.x + (node.width \div 2) = P.x + (P.width \div 2)
                /\ (~node.stretch.y /\ node.anchor.y = anchors.center /\ node.y = 0) =>
                      /\ last.bounds.y
                            = P.y + (P.height \div 2) - PivotShift(node.height, node.pivot.y)
                      /\ node.pivot.y = 0 => last.bounds.y = P.y + (P.height \div 2)
                      /\ node.pivot.y = 1 =>
                            last.bounds.y + (node.height \div 2) = P.y + (P.height \div 2)

(* an object as the constructor leaves its pivot, centred on both axes at  *)
(* raw (0, 0) under a parent away from the origin: its position is not the *)
(* parent's half-way point                                                 *)
C16_Witness ==
    /\ Resolved(1)
    /\ objects[1].anchor = [x |-> anchors.center, y |-> anchors.center]
    /\ objects[1].stretch = [x |-> FALSE, y |-> FALSE]
    /\ objects[1].x = 0 /\ objects[1].y = 0
    /\ objects[1].pivot = [x |-> 1, y |-> 1]
    /\ objects[1].parent # NoParent
    /\ ParentRect(1).x # 0 /\ ParentRect(1).y # 0
    /\ last.bounds.x # ParentRect(1).x + (ParentRect(1).width \div 2)
    /\ last.bounds.y # ParentRect(1).y + (ParentRect(1).height \div 2)

(* the objects, with field prop of object n set to value *)
Changed(objs, n, prop, value) == [objs EXCEPT ![n][prop] = value]

(* C17: on an unstretched axis anchored to the end (right, bottom) the     *)
(* position before the pivot is applied is the parent's origin plus the    *)
(* parent's size less the raw coordinate; a raw coordinate larger by d     *)
(* puts the object d nearer to the parent's start edge.                    *)
C17_EndAnchor ==
    \A n \in 1..Len(objects) :
        Resolved(n) =>
            LET node == objects[n]
                P == ParentRect(n)
            IN  /\ (~node.stretch.x /\ node.anchor.x = anchors.right) =>
                      /\ last.bounds.x + PivotShift(node.width, node.pivot.x)
                            = P.x + P.width - node.x
                      /\ \A d \in {1, 10} :
                            resolveBounds(Changed(objects, n, "x", node.x + d), Canvas, n).x
                                = last.bounds.x - d
                /\ (~node.stretch.y /\ node.anchor.y = anchors.bottom) =>
                      /\ last.bounds.y + PivotShift(node.height, node.pivot.y)
                            = P.y + P.height - node.y
                      /\ \A d \in {1, 10} :
                            resolveBounds(Changed(objects, n, "y", node.y + d), Canvas, n).y
                                = last.bounds.y - d

(* an object anchored right and bottom at raw (10, 20), with a pivot,      *)
(* under a parent away from the origin                                     *)
C17_Witness ==
    /\ Resolved(1)
    /\ objects[1].anchor = [x |-> anchors.right, y |-> anchors.bottom]
    /\ objects[1].stretch = [x |-> FALSE, y |-> FALSE]
    /\ objects[1].x = 10 /\ objects[1].y = 20
    /\ objects[1].pivot = [x |-> 2, y |-> 1]
    /\ objects[1].parent # NoParent
    /\ ParentRect(1).x # 0
    /\ last.bounds.x = ParentRect(1).x + ParentRect(1).width - 10 - objects[1].width

(* the values a raw field of an object may be changed to *)
RawCoordinates == {0, 10, 35}
RawSizes == {0, 60, 100}
AnchorsX == {anchors.left, anchors.center, anchors.right}
AnchorsY == {anchors.top, anchors.center, anchors.bottom}

(* C18 as stated: on a stretched axis the resolved position and size do    *)
(* not depend on the raw coordinate, the raw size or the anchor of that    *)
(* axis: with any of the three changed, getBounds returns the same         *)
(* position and size on the axis.                                          *)
C18_StretchedAxisIgnoresRawFields ==
    \A n \in 1..Len(objects) :
        Resolved(n) =>
            LET node == objects[n]
                changedX == {Changed(objects, n, "x", v) : v \in RawCoordinates}
                            \cup {Changed(objects, n, "width", v) : v \in RawSizes}
                            \cup {Changed(objects, n, "anchor", [node.anchor EXCEPT !.x = a]) :
                                     a \in AnchorsX}
                changedY == {Changed(objects, n, "y", v) : v \in RawCoordinates}
                            \cup {Changed(objects, n, "height", v) : v \in RawSizes}
                            \cup {Changed(objects, n, "anchor", [node.anchor EXCEPT !.y = a]) :
                                     a \in AnchorsY}
            IN  /\ node.stretch.x =>
                      \A objs \in changedX :
                         /\ resolveBounds(objs, Canvas, n).x = last.bounds.x
                         /\ resolveBounds(objs, Canvas, n).width = last.bounds.width
                /\ node.stretch.y =>
                      \A objs \in changedY :
                         /\ resolveBounds(objs, Canvas, n).y = last.bounds.y
                         /\ resolveBounds(objs, Canvas, n).height = last.bounds.height

(* C19 as stated: with height 720 on a host surface of 1280 x 720 the      *)
(* width is 1280, and an object stretched on both axes, with its four      *)
(* offsets 0 and no parent, has the bounds (0, 0, 1280, 720).              *)
C19_StretchedFillsCanvas ==
    (gameCanvas = [width |-> 1280, height |-> 720] /\ height = 720) =>
        /\ width = 1280
        /\ \A n \in 1..Len(objects) :
              (/\ Resolved(n)
               /\ objects[n].stretch = [x |-> TRUE, y |-> TRUE]
               /\ \A k \in {"left", "top", "right", "bottom"} : objects[n].offset[k] = Num(0)
               /\ objects[n].parent = NoParent)
              => last.bounds = Rect(0, 0, 1280, 720)

---------------------------------------------------------------------------
(* Reads, usage errors and visibility *)

(* the chain of parents above object n runs into a cycle of two or more    *)
(* objects (an object that is its own parent ends the chain for `visible') *)
OnCycle(objs, n) ==
    \E m \in ParentChain(objs, n) :
        /\ objs[m].parent \notin {NoParent, m}
        /\ m \in ParentChain(objs, objs[m].parent)

(* C21 as stated: a read of an observed field returns the backing value,   *)
(* the value most recently written to the field or its initial value,      *)
(* whatever the state of the other objects; a read right after a write of  *)
(* the same field returns the value written.                               *)
C21_ReadIsPassThrough ==
    [][last'.op = "get" =>
          /\ last'.err = "none"
          /\ last'.value = <<Shown(last'.arg[2], objects[last'.arg[1]][last'.arg[2]])>>
          /\ (last.op = "set" /\ last.err = "none" /\ last.arg = last'.arg) =>
                last'.value = last.value]_vars

(* C21, amended: a read of an observed field other than `visible' returns  *)
(* the backing value, so the value written by a write just before.  A read *)
(* of `visible' returns the backing value only when the object has no      *)
(* parent, is its own parent, or its parent reads visible; under a parent  *)
(* that reads not visible it returns false whatever was written; on a      *)
(* cycle of parents it does not return but throws (RangeError).            *)
C21_ReadIsPassThroughButVisible ==
    [][last'.op = "get" =>
          LET n == last'.arg[1]
              prop == last'.arg[2]
              written == last.op = "set" /\ last.err = "none" /\ last.arg = last'.arg
          IN  /\ prop # "visible" =>
                    /\ last'.err = "none"
                    /\ last'.value = <<Shown(prop, objects[n][prop])>>
                    /\ written => last'.value = last.value
              /\ (prop = "visible" /\ OnCycle(objects, n)) => last'.err = "RangeError"
              /\ (prop = "visible" /\ ~OnCycle(objects, n)) =>
                    /\ last'.err = "none"
                    /\ last'.value
                          = <<Shown(prop, \A m \in ParentChain(objects, n) : objects[m].visible)>>
                    /\ (written /\ objects[n].parent \in {NoParent, n}) =>
                          last'.value = last.value]_vars

(* `visible' of the second object was read: its backing value is TRUE, its *)
(* parent, the first object, is hidden, and the read returned FALSE        *)
C21_Witness ==
    /\ last.op = "get"
    /\ last.arg = <<2, "visible">>
    /\ last.value = <<0>>
    /\ objects[2].visible
    /\ objects[2].parent = 1
    /\ ~objects[1].visible

(* the chain of parents above object n comes back to an object it has      *)
(* passed: a cycle of two or more objects, or an object that is its own    *)
(* parent                                                                  *)
BoundsCycle(objs, n) ==
    \E m \in ParentChain(objs, n) :
        /\ objs[m].parent # NoParent
        /\ m \in ParentChain(objs, objs[m].parent)

(* C22 as stated: getBounds on an object whose chain of parents is cyclic  *)
(* (A under B and B under A, or an object under itself) throws a           *)
(* CyclicParentError; it does not recurse until the call stack overflows.  *)
C22_CycleRaisesCyclicParentError ==
    (last.op = "getBounds" /\ BoundsCycle(objects, last.arg[1])) =>
        last.err = "CyclicParentError"

(* C23 as stated: an object whose parent is set to a value that is no      *)
(* display object makes every operation that needs its bounds throw:       *)
(* getBounds on it, a draw pass over it, the dispatch of a click to its    *)
(* listener (the object itself not being hidden), whatever its stretch and *)
(* anchor and whatever the value; it is never passed over in silence.      *)
C23_NonNodeParentFailsLoudly ==
    [][/\ (last'.op = "getBounds" /\ objects[last'.arg[1]].parent \in NonNodes) =>
             last'.err = "Error"
       /\ (/\ last'.op = "draw"
           /\ shouldReDraw
           /\ \E k \in 1..Len(displayObjects) :
                 /\ objects[displayObjects[k]].parent \in NonNodes
                 /\ objects[displayObjects[k]].visible) =>
             last'.err = "Error"
       /\ (/\ last'.op = "click"
           /\ last'.coords # <<>>
           /\ \E i \in 1..Len(eventListeners) :
                 /\ objects[eventListeners[i].displayObject].parent \in NonNodes
                 /\ objects[eventListeners[i].displayObject].visible) =>
             last'.err = "Error"]_vars

(* an edge of the offset of node n holds a value that is no number and no  *)
(* "<p>%"                                                                  *)
BadEdge(objs, n) == \E k \in Edges : objs[n].offset[k].kind \notin {"number", "percent"}

Stretched(objs, n) == objs[n].stretch.x \/ objs[n].stretch.y

C25_EdgeWriteSetsFlag ==
    [][(last'.op = "setEdge" /\ objects' # objects) => shouldReDraw']_vars

(* C25, amended: assigning the offset as a whole sets shouldReDraw;        *)
(* assigning one of its edges in place changes that edge alone and leaves  *)
(* shouldReDraw as it was, so that a draw() that follows it with the flag  *)
(* FALSE repaints nothing                                                  *)
C25_OnlyWholeOffsetIsObserved ==
    [][/\ (last'.op = "set" /\ last'.arg[2] = "offset") => shouldReDraw'
       /\ last'.op = "setEdge" =>
              /\ shouldReDraw' = shouldReDraw
              /\ \E value \in EdgeValues :
                     objects' = [objects EXCEPT
                                    ![last'.arg[1]].offset[last'.arg[2]] = value]
       /\ (last'.op = "draw" /\ last.op = "setEdge" /\ ~shouldReDraw) =>
              /\ last'.cleared = 0
              /\ last'.drawn = <<>>
              /\ ~shouldReDraw']_vars

(* an edge of the stretched box A has been given another value in place,   *)
(* and no repaint is due                                                   *)
C25_Witness ==
    /\ last.op = "setEdge"
    /\ last.arg = <<1, "left">>
    /\ objects[1].stretch.x
    /\ objects[1].offset.left = Num(64)
    /\ ~shouldReDraw


(* the render of object n raises in the state given *)
Raises(objs, cv, n) == render(objs, cv, n).err # "none"

(* the first index of the list whose object's render raises *)
FirstRaising(objs, cv, list) ==
    CHOOSE k \in 1..Len(list) :
        /\ Raises(objs, cv, list[k])
        /\ \A j \in 1..(k - 1) : ~Raises(objs, cv, list[j])

(* C26: when the render of a node raises during a draw pass, the pass is   *)
(* aborted at that node: no later node of the list is rendered or drawn,   *)
(* the error comes out of draw(), and shouldReDraw is still TRUE after it  *)
C26_RaisingRenderAbortsPass ==
    [][(/\ last'.op = "draw"
        /\ shouldReDraw
        /\ \E k \in 1..Len(displayObjects) : Raises(objects, Canvas, displayObjects[k])) =>
          LET k == FirstRaising(objects, Canvas, displayObjects)
          IN  /\ last'.err = render(objects, Canvas, displayObjects[k]).err
              /\ last'.rendered = SubSeq(displayObjects, 1, k)
              /\ \A d \in 1..Len(last'.drawn) :
                     \E j \in 1..(k - 1) : last'.drawn[d].node = displayObjects[j]
              /\ shouldReDraw']_vars

(* a pass has been aborted before the last object of the list *)
C26_Witness ==
    /\ last.op = "draw"
    /\ last.err # "none"
    /\ Len(last.rendered) < Len(displayObjects)
    /\ shouldReDraw


(* object n was handed to its draw callback in the pass recorded in l *)
DrawnIn(l, n) == \E d \in 1..Len(l.drawn) : l.drawn[d].node = n

(* C28: in a draw pass the draw callback of a node is invoked exactly when *)
(* the node's own visible flag is set and that of every node up its chain  *)
(* of parents is set; a write to the visible flag of a node changes the    *)
(* flag stored in that node alone, so hiding a parent hides what is under  *)
(* it without touching it, and showing the parent brings it back.  (Passes *)
(* and writes that return: on a cycle of parents they throw.)              *)
C28_DrawnIffChainVisible ==
    [][/\ (last'.op = "draw" /\ last'.cleared = 1 /\ last'.err = "none") =>
              \A k \in 1..Len(displayObjects) :
                  DrawnIn(last', displayObjects[k])
                      <=> \A m \in ParentChain(objects, displayObjects[k]) : objects[m].visible
       /\ (last'.op = "set" /\ last'.arg[2] = "visible" /\ last'.err = "none") =>
              \A m \in 1..Len(objects) :
                  objects'[m] = IF m = last'.arg[1]
                                THEN [objects[m] EXCEPT !.visible = (last'.value = <<1>>)]
                                ELSE objects[m]]_vars

(* a pass has left out an object whose own flag is set, under a hidden parent *)
C28_Witness ==
    /\ last.op = "draw"
    /\ last.cleared = 1
    /\ last.err = "none"
    /\ Len(objects) = 2
    /\ objects[2].visible
    /\ objects[2].parent = 1
    /\ ~objects[1].visible
    /\ ~DrawnIn(last, 2)


(* C27: bounds are never kept from one call to the next: a click that      *)
(* follows a write to the geometry of a node or of its parent (x, or the   *)
(* parent itself) is tested against the bounds as they are after the       *)
(* write, also when no draw() came between the write and the click         *)
C27_ClickTestsCurrentBounds ==
    [][(/\ last'.op = "click"
        /\ last'.coords # <<>>
        /\ last.op = "set"
        /\ last.err = "none"
        /\ last.arg[2] \in {"x", "parent"}) =>
          \A j \in 1..Len(last'.log) :
              LET n == eventListeners[last'.log[j].listener].displayObject
              IN  (/\ last'.log[j].step = "test"
                   /\ last.arg[1] \in ParentChain(objects, n)) =>
                      last'.log[j].hit =
                          /\ \A m \in ParentChain(objects, n) : objects[m].visible
                          /\ Holds(objects, Canvas, n, last'.coords[1], last'.coords[2])]_vars

(* box A was moved to the right with no draw since, and a click on (20, 20), *)
(* a point it held where it was created, called nothing                      *)
C27_Witness ==
    /\ last.op = "click"
    /\ last.err = "none"
    /\ last.coords = <<20, 20>>
    /\ last.fired = <<>>
    /\ \E i \in 1..Len(eventListeners) : eventListeners[i].displayObject = 1
    /\ objects[1].visible
    /\ objects[1].parent = NoParent
    /\ objects[1].x = 100
    /\ shouldReDraw


----------------------------------------------------------------------------
(* The asset loader *)

(* the places of the log of a run where loader function f called done *)
DoneAt(run, f) == {j \in 1..Len(run.log) : run.log[j] = Done(f)}

(* the loader functions queued for a run: those of the collections it has  *)
(* copied and of the collections still in its working queue                *)
QueuedFor(al, run) ==
    UNION ({Range(run.taken[k]) : k \in 1..Len(run.taken)}
           \cup {Range(al.arrays[ref]) : ref \in Range(run.workingQueue) \ {Undefined}})

AllSignalledOnce(al, run) ==
    \A f \in QueuedFor(al, run) : Cardinality(DoneAt(run, f)) = 1

(* how often the callback of the load numbered r had been called in al *)
CalledIn(al, r) == IF r <= Len(al.runs) THEN al.runs[r].called ELSE 0

(* C29: for every call of load(callback): the callback is called at most   *)
(* once; it is called only when every loader queued for the call has       *)
(* signalled done; when every queued loader has signalled done exactly     *)
(* once it has been called (once); and the step that calls it leaves the   *)
(* queue and the per-asset progress reset                                  *)
C29_CallbackOnceAfterAllDone ==
    [][\A r \in 1..Len(AssetLoader'.runs) :
          LET run == AssetLoader'.runs[r]
          IN  /\ run.called <= 1
              /\ run.called = 1 =>
                     /\ run.workingQueue = <<>>
                     /\ AllSignalledOnce(AssetLoader', run)
              /\ AllSignalledOnce(AssetLoader', run) => run.called = 1
              /\ run.called > CalledIn(AssetLoader, r) =>
                     /\ AssetLoader'.queue = <<>>
                     /\ AssetLoader'.assetProgress = {}]_vars

(* the place in taken of the collection that holds loader function f *)
CollectionOf(run, f) == CHOOSE k \in 1..Len(run.taken) : f \in Range(run.taken[k])

(* C30: a loader pushed after queueNext() goes to a later collection: push *)
(* puts the loader in the collection at place queueIdx, no loader of the   *)
(* queue sits behind that place, and queueIdx never goes down.  During a   *)
(* load no loader of a later collection is called before every loader of   *)
(* all earlier collections has signalled done.                             *)
C30_LaterCollectionWaits ==
    [][/\ Len(AssetLoader'.queue) <= AssetLoader'.queueIdx + 1
       /\ AssetLoader'.queueIdx >= AssetLoader.queueIdx
       /\ Len(AssetLoader'.sync) > Len(AssetLoader.sync) =>
              Len(AssetLoader'.sync)
                  \in Range(AssetLoader'.arrays[AssetLoader'.queue[AssetLoader.queueIdx + 1]])
       /\ \A r \in 1..Len(AssetLoader'.runs) :
              LET run == AssetLoader'.runs[r]
              IN  \A j \in 1..Len(run.log) :
                      run.log[j].ev = "start" =>
                          \A k \in 1..(CollectionOf(run, run.log[j].func) - 1) :
                              \A g \in Range(run.taken[k]) :
                                  \E i \in DoneAt(run, g) : i < j]_vars

(* a load has gone through a collection of two loaders, one of them left   *)
(* pending for a while, and then called the loader of the collection       *)
(* behind it                                                               *)
C30_Witness ==
    \E r \in 1..Len(AssetLoader.runs) :
        LET run == AssetLoader.runs[r]
        IN  /\ Len(run.taken) = 2
            /\ Len(run.taken[1]) = 2
            /\ \E f \in Range(run.taken[1]) : ~AssetLoader.sync[f]
            /\ \E j \in 1..Len(run.log) : run.log[j] = Started(run.taken[2][1])


(* the places of the log of a run where loader function f was called *)
StartedAt(run, f) == {j \in 1..Len(run.log) : run.log[j] = Started(f)}

(* the loaders called and not yet done after the first j entries of the log *)
InFlight(run, j) ==
    Cardinality({i \in 1..j : run.log[i].ev = "start"})
        - Cardinality({i \in 1..j : run.log[i].ev = "done"})

(* collection k of a run has completed: the run has gone on to the next    *)
(* collection, or has called the callback of load                          *)
Completed(run, k) == k < Len(run.taken) \/ run.called > 0

(* the place of the log at which collection k completed: the last done of  *)
(* one of its loaders                                                      *)
CompletedAt(run, k) ==
    CHOOSE j \in 1..Len(run.log) :
        /\ run.log[j].ev = "done"
        /\ run.log[j].func \in Range(run.taken[k])
        /\ \A i \in (j + 1)..Len(run.log) :
               ~(run.log[i].ev = "done" /\ run.log[i].func \in Range(run.taken[k]))

(* C31: while a collection is loading the number of loaders called and not *)
(* yet done never exceeds maxConcurrency (1, 2 or Infinity); no loader of  *)
(* the collection is called twice, and every one has been called when the  *)
(* collection completes; the collection completes only at a done that      *)
(* leaves no loader called and not yet done and none left to call.  This   *)
(* holds for loaders that call done before they return and for loaders     *)
(* that call it later.                                                     *)
C31_AtMostMaxConcurrencyInFlight ==
    \A r \in 1..Len(AssetLoader.runs) :
        LET run == AssetLoader.runs[r]
        IN  /\ \A j \in 1..Len(run.log) : InFlight(run, j) <= AssetLoader.maxConcurrency
            /\ Cardinality(run.pending) = InFlight(run, Len(run.log))
            /\ \A k \in 1..Len(run.taken) :
                   /\ \A f \in Range(run.taken[k]) : Cardinality(StartedAt(run, f)) <= 1
                   /\ Completed(run, k) =>
                          /\ \A f \in Range(run.taken[k]) :
                                 /\ Cardinality(StartedAt(run, f)) = 1
                                 /\ Cardinality(DoneAt(run, f)) = 1
                                 /\ \A i \in StartedAt(run, f) : i < CompletedAt(run, k)
                          /\ InFlight(run, CompletedAt(run, k)) = 0

(* with maxConcurrency 2, a load has completed a collection of three       *)
(* loaders, of which one called done before it returned and one later      *)
C31_Witness ==
    /\ AssetLoader.maxConcurrency = 2
    /\ \E r \in 1..Len(AssetLoader.runs) :
           LET run == AssetLoader.runs[r]
           IN  /\ run.called = 1
               /\ Len(run.taken) = 1
               /\ Len(run.taken[1]) = 3
               /\ \E f, g \in Range(run.taken[1]) : AssetLoader.sync[f] /\ ~AssetLoader.sync[g]


(* the step is a call of load *)
IsLoad == Len(AssetLoader'.runs) > Len(AssetLoader.runs)

(* the call of load made last in al *)
LastRun(al) == al.runs[Len(al.runs)]

(* C32: load(callback) called while no asset is queued completes at once:  *)
(* it raises no error and has called the callback once when it returns     *)
C32_EmptyLoadCompletes ==
    [][(IsLoad /\ AssetLoader.queue = <<>>) =>
          /\ AssetLoader'.err = "none"
          /\ LastRun(AssetLoader').called = 1]_vars


(* the loader functions in the queue of al *)
InQueue(al) == UNION {Range(al.arrays[ref]) : ref \in Range(al.queue) \ {Undefined}}

(* every call of load made so far has called its callback, and one was made *)
AllLoadsCompleted(al) ==
    /\ al.runs # <<>>
    /\ \A r \in 1..Len(al.runs) : al.runs[r].called = 1

(* C33: the loader can be used again: when every load so far has completed *)
(* (the queue was reset) and assets were added since, a call of load       *)
(* raises no error and runs the loaders added since, all of them and no    *)
(* other, whether or not queueNext() was called before                     *)
C33_LoadAgainRunsNewLoaders ==
    [][(IsLoad /\ AllLoadsCompleted(AssetLoader) /\ AssetLoader.queue # <<>>) =>
          /\ AssetLoader'.err = "none"
          /\ Undefined \notin Range(AssetLoader.queue)
          /\ QueuedFor(AssetLoader', LastRun(AssetLoader')) = InQueue(AssetLoader)]_vars


----------------------------------------------------------------------------
(* The display list, the tint and the termination of reads of `visible' *)

(* C34: whenever the display list has changed since the last completed     *)
(* draw pass (an object was created, or moveToFront changed the order),    *)
(* shouldReDraw is TRUE: a step that changes the list leaves the flag set, *)
(* so that the next draw() repaints                                        *)
C34_ListChangeSetsFlag ==
    [][displayObjects' # displayObjects => shouldReDraw']_vars


(* C35: on a quad, with colorReplace set, on every frame that redraws, the *)
(* tint is applied to the canvas before the host's renderer is called, so  *)
(* that the canvas the host renders and uploads on that frame is the       *)
(* tinted one                                                              *)
C35_HostUploadsTintedCanvas ==
    (/\ last.op = "render"
     /\ renderOnQuad
     /\ last.colorReplace = 1
     /\ last.cleared = 1
     /\ last.err = "none") =>
        /\ last.tint = 1
        /\ last.host = 1
        /\ last.uploaded = 2


(* every object of the display list lies under (or is) a hidden object: a  *)
(* draw pass returns from each at its test of `visible' and resolves no    *)
(* bounds                                                                  *)
AllHidden(objs, list) ==
    \A i \in 1..Len(list) : \E m \in ParentChain(objs, list[i]) : ~objs[m].visible

(* C36: a read of `visible' returns for every graph of parents, an object  *)
(* that is its own parent and two objects that are each other's parent     *)
(* included; hence a frame over objects that are all hidden, which reads   *)
(* `visible' of each and nothing else, ends without an error: deciding     *)
(* visibility does not recurse until the call stack overflows.             *)
C36_VisibleReadReturns ==
    /\ (last.op = "get" /\ last.arg[2] = "visible") => last.err = "none"
    /\ (last.op = "render" /\ AllHidden(objects, displayObjects)) => last.err = "none"

===========================================================================
